---- MODULE Spec2Model ----
(***************************************************************************)
(* Model of the command line parser of llava-cpp-server                    *)
(* (src/util/command_line.cpp, src/util/format.cpp).                       *)
(*                                                                         *)
(* Strings that the parser takes apart (arguments, option names, values)   *)
(* are sequences of one-character strings.  Strings that are only stored   *)
(* or compared whole (configuration keys, parameter display names) are     *)
(* TLA+ strings.                                                           *)
(***************************************************************************)
EXTENDS Integers, Sequences, FiniteSets, TLC

(***************************************************************************)
(* Bounds of the model.                                                    *)
(***************************************************************************)
\* longest argument vector explored (argc - 1)
MaxArgs == 2

(***************************************************************************)
(* Characters and the <cctype> functions used by the parser.               *)
(***************************************************************************)
UpperCase == <<"A","B","C","D","E","F","G","H","I","J","K","L","M",
               "N","O","P","Q","R","S","T","U","V","W","X","Y","Z">>
LowerCase == <<"a","b","c","d","e","f","g","h","i","j","k","l","m",
               "n","o","p","q","r","s","t","u","v","w","x","y","z">>
Digits == <<"0","1","2","3","4","5","6","7","8","9">>

tolower(c) ==
    IF \E k \in DOMAIN UpperCase : UpperCase[k] = c
    THEN LowerCase[CHOOSE k \in DOMAIN UpperCase : UpperCase[k] = c]
    ELSE c

isspace(c) == c \in {" ", "\t", "\n"}

isdigit(c) == \E k \in DOMAIN Digits : Digits[k] = c

DigitValue(c) == (CHOOSE k \in DOMAIN Digits : Digits[k] = c) - 1

\* util::to_lower: std::transform with ::tolower
to_lower(str) == [k \in DOMAIN str |-> tolower(str[k])]

\* util::stricmp: walks both strings until a difference or a terminator;
\* 0 when they are equal ignoring case, the sign of the first difference
\* otherwise (the model keeps only "non-zero": 1).
RECURSIVE stricmp(_, _)
stricmp(s1, s2) ==
    IF s1 = <<>> /\ s2 = <<>> THEN 0
    ELSE IF s1 = <<>> \/ s2 = <<>> THEN 1
    ELSE IF tolower(Head(s1)) # tolower(Head(s2)) THEN 1
    ELSE stricmp(Tail(s1), Tail(s2))

\* Formatted extraction of an integer from a stream (is >> v): leading
\* whitespace is skipped, an optional sign is read, then digits up to the
\* first character that is not a digit.  fail is the stream's failbit; on
\* failure the value stored is 0 (C++11 and later).
RECURSIVE SkipSpace(_)
SkipSpace(s) == IF s # <<>> /\ isspace(Head(s)) THEN SkipSpace(Tail(s)) ELSE s

RECURSIVE ReadDigits(_, _, _)
ReadDigits(s, acc, n) ==
    IF s # <<>> /\ isdigit(Head(s))
    THEN ReadDigits(Tail(s), acc * 10 + DigitValue(Head(s)), n + 1)
    ELSE [value |-> acc, count |-> n]

\* The digits of the limits of int64_t.  TLC's integers are
\* narrower than 64 bits, so overflow is decided on the digits and the
\* value of a numeral is computed only when it fits.
Int64MaxDigits ==
    <<"9","2","2","3","3","7","2","0","3","6","8","5","4","7","7","5","8","0","7">>
Int64LowestDigits ==
    <<"9","2","2","3","3","7","2","0","3","6","8","5","4","7","7","5","8","0","8">>

RECURSIVE DigitRun(_)
DigitRun(s) ==
    IF s # <<>> /\ isdigit(Head(s)) THEN <<Head(s)>> \o DigitRun(Tail(s)) ELSE <<>>

RECURSIVE StripZeros(_)
StripZeros(d) == IF Len(d) > 1 /\ Head(d) = "0" THEN StripZeros(Tail(d)) ELSE d

\* a > b for digit sequences of the same length
RECURSIVE DigitsGreater(_, _)
DigitsGreater(a, b) ==
    IF a = <<>> THEN FALSE
    ELSE IF Head(a) # Head(b) THEN DigitValue(Head(a)) > DigitValue(Head(b))
    ELSE DigitsGreater(Tail(a), Tail(b))

ExceedsLimit(d, limit) ==
    \/ Len(d) > Len(limit)
    \/ Len(d) = Len(limit) /\ DigitsGreater(d, limit)

Overflows(digits, neg) ==
    ExceedsLimit(StripZeros(digits), IF neg THEN Int64LowestDigits ELSE Int64MaxDigits)

\* Formatted extraction of an int64_t (is >> v): leading whitespace is
\* skipped, an optional sign and the longest run of digits are read, and
\* whatever follows is left in the stream.  With no digit the extraction
\* fails and stores 0; on overflow it fails and stores the limit of the
\* type (saturated "max" or "lowest").
ConvertDigits(run, s1, neg) ==
    IF run = <<>>
    THEN [fail |-> TRUE, value |-> 0, saturated |-> "no"]
    ELSE IF Overflows(run, neg)
    THEN [fail |-> TRUE, value |-> 0, saturated |-> IF neg THEN "lowest" ELSE "max"]
    ELSE [fail |-> FALSE,
          value |-> IF neg THEN 0 - ReadDigits(s1, 0, 0).value ELSE ReadDigits(s1, 0, 0).value,
          saturated |-> "no"]

ExtractDigits(s1, neg) == ConvertDigits(DigitRun(s1), s1, neg)

ExtractSigned(s0) ==
    IF s0 # <<>> /\ Head(s0) = "-" THEN ExtractDigits(Tail(s0), TRUE)
    ELSE IF s0 # <<>> /\ Head(s0) = "+" THEN ExtractDigits(Tail(s0), FALSE)
    ELSE ExtractDigits(s0, FALSE)

StreamExtractInt(str) == ExtractSigned(SkipSpace(str))

\* Formatted extraction of a bool without boolalpha (ss >> tmp): read as an
\* integer; 0 stores false, 1 stores true, anything else stores true and
\* fails; nothing readable stores false and fails.
StreamExtractBool(str) ==
    LET r == StreamExtractInt(str)
    IN  IF r.saturated # "no" THEN TRUE
        ELSE IF r.fail THEN FALSE ELSE r.value # 0

\* Literals
sTrue  == <<"t","r","u","e">>
sFalse == <<"f","a","l","s","e">>
sYes   == <<"y","e","s">>
sNo    == <<"n","o">>
sOn    == <<"o","n">>
sOff   == <<"o","f","f">>
sOne   == <<"1">>
sZero  == <<"0">>

\* parse_bool comparing with strcmp instead of stricmp
parse_bool_case_sensitive(str) ==
    IF str = sTrue \/ str = sOn \/ str = sYes
    THEN TRUE
    ELSE IF str = sFalse \/ str = sOff \/ str = sNo
    THEN FALSE
    ELSE StreamExtractBool(str)

\* util::parse_bool
parse_bool(str) ==
    IF stricmp(str, sTrue) = 0 \/ stricmp(str, sOn) = 0 \/ stricmp(str, sYes) = 0
    THEN TRUE
    ELSE IF stricmp(str, sFalse) = 0 \/ stricmp(str, sOff) = 0 \/ stricmp(str, sNo) = 0
    THEN FALSE
    ELSE StreamExtractBool(str)

\* util::format::split: the parts between separators; an empty string gives
\* one empty part, a trailing separator gives a trailing empty part.
RECURSIVE SplitFrom(_, _, _)
SplitFrom(str, separator, part) ==
    IF str = <<>> THEN <<part>>
    ELSE IF Head(str) = separator
         THEN <<part>> \o SplitFrom(Tail(str), separator, <<>>)
         ELSE SplitFrom(Tail(str), separator, Append(part, Head(str)))

split(str, separator) == SplitFrom(str, separator, <<>>)

(***************************************************************************)
(* The configuration tree (util::config::Node).  Its source is not part of *)
(* the parser; the model keeps what the parser uses of it: a scalar value  *)
(* per key, an ordered list of named children per key, and a typed read    *)
(* with a default.  A key that was never set is not in the tree's domain.  *)
(***************************************************************************)
EmptyTree == [k \in {} |-> 0]

\* Node::Set(key, value): creates the node if needed, keeps its children
NodeSet(config, key, value) ==
    [k \in DOMAIN config \cup {key} |->
        IF k = key
        THEN [value |-> value,
              children |-> IF key \in DOMAIN config THEN config[key].children ELSE <<>>]
        ELSE config[k]]

\* Node::Get(key).RemoveChildren()
NodeRemoveChildren(config, key) ==
    [config EXCEPT ![key] = [@ EXCEPT !.children = <<>>]]

\* Node::Get(key).Add(name, value): a new child after the existing ones
NodeAdd(config, key, name, value) ==
    [config EXCEPT ![key] =
        [@ EXCEPT !.children = Append(@, [name |-> name, value |-> value])]]

\* Node::operator[](key).ValueAsDefault<bool>(default_value)
NodeValueAsDefaultBool(config, key, default_value) ==
    IF key \in DOMAIN config THEN parse_bool(config[key].value) ELSE default_value

(***************************************************************************)
(* Parameter definitions and their validators.  validate gives the error   *)
(* flag it returns and the diagnostics it logs.                            *)
(***************************************************************************)
string(name)  == [type |-> "string", name |-> name]
boolean(name) == [type |-> "boolean", name |-> name]

\* integer_parameter_definition(name): no bounds check; the bound members
\* keep their initialisers, the limits of int64_t, which no code reads
\* while bounds_check_required is false.
integer_unbounded(name) ==
    [type |-> "integer", name |-> name, bounds_check_required |-> FALSE]

\* integer_parameter_definition(name, lower, upper): the members are
\* initialised from the arguments; the exchange in the constructor body
\* acts on the arguments, after the members were set.
integer(name, lower, upper) ==
    [type |-> "integer", name |-> name,
     lower_bound |-> lower, upper_bound |-> upper, bounds_check_required |-> TRUE]

BooleanLiterals == {sTrue, sFalse, sYes, sNo, sOn, sOff, sOne, sZero}

\* a boolean validator that reports nothing
boolean_validate_lenient(option_name, value, parameter_num) ==
    [error |-> FALSE, diags |-> <<>>]

boolean_validate(option_name, value, parameter_num) ==
    LET s     == to_lower(value)
        valid == s \in BooleanLiterals
    IN  [error |-> ~valid,
         diags |-> IF ~valid
                   THEN <<[kind |-> "not_a_boolean", option |-> option_name, num |-> parameter_num]>>
                   ELSE <<>>]

\* reports "must be an integer" in preference to the range message
integer_validate_integer_first(p, option_name, value, parameter_num) ==
    LET r              == StreamExtractInt(value)
        out_of_bounds  == IF p.bounds_check_required
                          THEN ~(r.saturated = "no" /\ r.value >= p.lower_bound
                                                    /\ r.value <= p.upper_bound)
                          ELSE FALSE
    IN  IF r.fail
        THEN [error |-> TRUE,
              diags |-> <<[kind |-> "not_an_integer", option |-> option_name, num |-> parameter_num]>>]
        ELSE IF out_of_bounds
        THEN [error |-> TRUE,
              diags |-> <<[kind |-> "out_of_range", option |-> option_name, num |-> parameter_num]>>]
        ELSE [error |-> FALSE, diags |-> <<>>]

\* The bounds of a definition are integers TLC can hold, strictly inside
\* the limits of int64_t, so a saturated v lies outside every [lower, upper].
integer_validate(p, option_name, value, parameter_num) ==
    LET r              == StreamExtractInt(value)
        not_an_integer == r.fail
        v              == r.value
        out_of_bounds  == IF p.bounds_check_required
                          THEN ~(r.saturated = "no" /\ v >= p.lower_bound /\ v <= p.upper_bound)
                          ELSE FALSE
    IN  IF out_of_bounds
        THEN [error |-> TRUE,
              diags |-> <<[kind |-> "out_of_range", option |-> option_name, num |-> parameter_num]>>]
        ELSE IF not_an_integer
        THEN [error |-> TRUE,
              diags |-> <<[kind |-> "not_an_integer", option |-> option_name, num |-> parameter_num]>>]
        ELSE [error |-> FALSE, diags |-> <<>>]

\* virtual dispatch of parameter_definition::validate
validate(p, option_name, value, parameter_num) ==
    CASE p.type = "boolean" -> boolean_validate(option_name, value, parameter_num)
      [] p.type = "integer" -> integer_validate(p, option_name, value, parameter_num)
      [] OTHER              -> [error |-> FALSE, diags |-> <<>>]

is_boolean(p) == p.type = "boolean"

(***************************************************************************)
(* Actions.  perform_action gives the tree after the action and whether    *)
(* the action threw std::logic_error.                                      *)
(***************************************************************************)
RECURSIVE AddChildren(_, _, _, _)
AddChildren(config, option, value_list, k) ==
    IF k > Len(value_list) THEN config
    ELSE AddChildren(NodeAdd(config, option.config_key, option.parameters[k].name, value_list[k]),
                     option, value_list, k + 1)

\* store_values_action without the removal of the existing children
store_values_action_keeps_children(config, option, values, value_list) ==
    LET c1 == NodeSet(config, option.config_key, values)
    IN  IF Len(value_list) = Len(option.parameters)
        THEN AddChildren(c1, option, value_list, 1)
        ELSE c1

store_values_action(config, option, values, value_list) ==
    LET c1 == NodeSet(config, option.config_key, values)
        c2 == NodeRemoveChildren(c1, option.config_key)
    IN  IF Len(value_list) = Len(option.parameters)
        THEN AddChildren(c2, option, value_list, 1)
        ELSE c2

store_constant_values_action(m_constant_values, config, option, values, value_list) ==
    LET constant_value_list == split(m_constant_values, option.parameter_delimiter)
    IN  store_values_action(config, option, m_constant_values, constant_value_list)

\* the boolean as it was given
invert_value_as_given(value) == IF parse_bool(value) THEN sTrue ELSE sFalse

invert_value(value) ==
    LET inverted_bool == ~parse_bool(value)
    IN  IF inverted_bool THEN sTrue ELSE sFalse

store_inverse_bool_action(config, option, values, value_list) ==
    IF Len(value_list) > 1
    THEN [config |-> config, thrown |-> TRUE]
    ELSE LET inverted_value == invert_value(values)
         IN  [config |-> store_values_action(config, option, inverted_value, <<inverted_value>>),
              thrown |-> FALSE]

\* action emitters
do_nothing == [kind |-> "action"]
store_constants(values) == [kind |-> "store_constant_values", m_constant_values |-> values]
store_values == [kind |-> "store_values"]
store_inverse_bool == [kind |-> "store_inverse_bool"]

\* virtual dispatch of detail::action::perform_action
perform_action(action, config, option, values, value_list) ==
    CASE action.kind = "store_values" ->
            [config |-> store_values_action(config, option, values, value_list), thrown |-> FALSE]
      [] action.kind = "store_constant_values" ->
            [config |-> store_constant_values_action(action.m_constant_values, config, option,
                                                     values, value_list),
             thrown |-> FALSE]
      [] action.kind = "store_inverse_bool" ->
            store_inverse_bool_action(config, option, values, value_list)
      [] OTHER -> [config |-> config, thrown |-> FALSE]

(***************************************************************************)
(* Option definitions and their emitters.                                  *)
(***************************************************************************)
None == 0
Required == 1

is_required(option) == (option.flags \div Required) % 2 # 0

switch_option(long_name, config_key, flags) ==
    [long_names |-> <<long_name>>, short_names |-> <<>>,
     parameters |-> <<boolean("value")>>, parameter_delimiter |-> ",",
     if_found |-> store_values, if_not_found |-> store_constants(sFalse),
     config_key |-> config_key, flags |-> flags]

switch_option_names(long_names, short_names, config_key, flags) ==
    [long_names |-> long_names, short_names |-> short_names,
     parameters |-> <<boolean("value")>>, parameter_delimiter |-> ",",
     if_found |-> store_values, if_not_found |-> store_constants(sFalse),
     config_key |-> config_key, flags |-> flags]

complement_switch_option(long_name, config_key, flags) ==
    [long_names |-> <<long_name>>, short_names |-> <<>>,
     parameters |-> <<boolean("value")>>, parameter_delimiter |-> ",",
     if_found |-> store_inverse_bool, if_not_found |-> do_nothing,
     config_key |-> config_key, flags |-> flags]

valued_option(long_name, parameter, config_key, flags) ==
    [long_names |-> <<long_name>>, short_names |-> <<>>,
     parameters |-> <<parameter>>, parameter_delimiter |-> ",",
     if_found |-> store_values, if_not_found |-> do_nothing,
     config_key |-> config_key, flags |-> flags]

default_valued_option(long_name, parameter, default_value, config_key, flags) ==
    [long_names |-> <<long_name>>, short_names |-> <<>>,
     parameters |-> <<parameter>>, parameter_delimiter |-> ",",
     if_found |-> store_values, if_not_found |-> store_constants(default_value),
     config_key |-> config_key, flags |-> flags]

multivalued_option(long_name, parameters, config_key, flags) ==
    [long_names |-> <<long_name>>, short_names |-> <<>>,
     parameters |-> parameters, parameter_delimiter |-> ",",
     if_found |-> store_values, if_not_found |-> do_nothing,
     config_key |-> config_key, flags |-> flags]

default_multivalued_option(long_name, parameters, default_values, config_key, flags) ==
    [long_names |-> <<long_name>>, short_names |-> <<>>,
     parameters |-> parameters, parameter_delimiter |-> ",",
     if_found |-> store_values, if_not_found |-> store_constants(default_values),
     config_key |-> config_key, flags |-> flags]

(***************************************************************************)
(* Validation of the option definitions.                                   *)
(***************************************************************************)
RECURSIVE AllNames(_)
AllNames(options) ==
    IF options = <<>> THEN <<>>
    ELSE Head(options).long_names \o Head(options).short_names \o AllNames(Tail(options))

num_times_used(options, name) ==
    Cardinality({k \in DOMAIN AllNames(options) : AllNames(options)[k] = name})

\* counts the long names only
validate_unique_names_long_only(options) ==
    \E a \in DOMAIN options : \E b \in DOMAIN options :
        \E k \in DOMAIN options[a].long_names : \E m \in DOMAIN options[b].long_names :
            /\ <<a, k>> # <<b, m>>
            /\ options[a].long_names[k] = options[b].long_names[m]

validate_unique_names(options) ==
    \E k \in DOMAIN AllNames(options) : num_times_used(options, AllNames(options)[k]) > 1

\* validate_names: the number of non-empty names, and whether one holds '='
num_names(names) == Cardinality({k \in DOMAIN names : Len(names[k]) > 0})

has_forbidden_character(names) ==
    \E k \in DOMAIN names : \E c \in DOMAIN names[k] : names[k][c] = "="

\* lets '=' through
validate_has_name_allows_equals(options) ==
    \E idx \in DOMAIN options : num_names(options[idx].long_names) = 0

validate_has_name(options) ==
    \E idx \in DOMAIN options :
        \/ num_names(options[idx].long_names) = 0
        \/ has_forbidden_character(options[idx].long_names)
        \/ has_forbidden_character(options[idx].short_names)

\* The diagnostics of the two checks: one per name used more than once (in
\* the order the names are declared; the source walks a std::map, which is
\* ordered by name), then, per definition, its names holding '=' and the
\* lack of a non-empty long name.
RECURSIVE forbidden_character_diags(_, _)
forbidden_character_diags(names, k) ==
    IF k > Len(names) THEN <<>>
    ELSE (IF \E c \in DOMAIN names[k] : names[k][c] = "="
          THEN <<[kind |-> "forbidden_character", option |-> names[k], num |-> 0]>>
          ELSE <<>>) \o forbidden_character_diags(names, k + 1)

RECURSIVE unique_names_diags(_, _)
unique_names_diags(options, k) ==
    LET names == AllNames(options)
    IN  IF k > Len(names) THEN <<>>
        ELSE (IF /\ num_times_used(options, names[k]) > 1
                 /\ \A m \in 1..(k - 1) : names[m] # names[k]
              THEN <<[kind |-> "name_used_multiple_times", option |-> names[k], num |-> 0]>>
              ELSE <<>>) \o unique_names_diags(options, k + 1)

RECURSIVE has_name_diags(_, _)
has_name_diags(options, idx) ==
    IF idx > Len(options) THEN <<>>
    ELSE forbidden_character_diags(options[idx].long_names, 1)
         \o (IF num_names(options[idx].long_names) = 0
             THEN <<[kind |-> "no_long_name", option |-> <<>>, num |-> idx]>>
             ELSE <<>>)
         \o forbidden_character_diags(options[idx].short_names, 1)
         \o has_name_diags(options, idx + 1)

validate_definition_diags(options) ==
    unique_names_diags(options, 1) \o has_name_diags(options, 1)

\* validate_definition: TRUE when it throws std::logic_error
validate_definition(options) ==
    validate_unique_names(options) \/ validate_has_name(options)

(***************************************************************************)
(* Command line parsing: the helpers of parse_command_line.                *)
(*                                                                         *)
(* A parse in progress is a record                                         *)
(*   config         the destination tree                                   *)
(*   options_found  the indices of the definitions recorded as seen        *)
(*   parse_error    the accumulated error flag                             *)
(*   diags          the diagnostics logged so far (LOG_ERROR), in order    *)
(*   calls          the actions invoked so far, in order                   *)
(*   thrown         an action threw std::logic_error                       *)
(***************************************************************************)
RECURSIVE store_defaults_from(_, _, _)
store_defaults_from(st, options, j) ==
    IF j > Len(options) \/ st.thrown THEN st
    ELSE LET r == perform_action(options[j].if_not_found, st.config, options[j], <<>>, <<>>)
         IN  store_defaults_from(
                 [st EXCEPT !.config = r.config,
                            !.thrown = r.thrown,
                            !.calls  = Append(@, [ev |-> "if_not_found", option |-> j])],
                 options, j + 1)

\* store_defaults starting at the second definition
store_defaults_skips_first(st, options) == store_defaults_from(st, options, 2)

store_defaults(st, options) == store_defaults_from(st, options, 1)

\* position of the first '=' in arg, 0 when there is none
find_first_of_equals(arg) ==
    IF \E k \in DOMAIN arg : arg[k] = "="
    THEN CHOOSE k \in DOMAIN arg : arg[k] = "=" /\ \A m \in 1..(k - 1) : arg[m] # "="
    ELSE 0

extract_name_and_values(arg) ==
    LET idx_equals == find_first_of_equals(arg)
    IN  IF idx_equals # 0
        THEN [name |-> SubSeq(arg, 1, idx_equals - 1),
              values |-> SubSeq(arg, idx_equals + 1, Len(arg)),
              separator_present |-> TRUE]
        ELSE [name |-> arg, values |-> <<>>, separator_present |-> FALSE]

matches(candidate, values) == \E k \in DOMAIN values : values[k] = candidate

RECURSIVE validate_slots(_, _, _, _)
validate_slots(option, name, value_list, k) ==
    IF k > Len(option.parameters) THEN [error |-> FALSE, diags |-> <<>>]
    ELSE LET r    == validate(option.parameters[k], name, value_list[k], k)
             rest == validate_slots(option, name, value_list, k + 1)
         IN  [error |-> r.error \/ rest.error, diags |-> r.diags \o rest.diags]

\* validate_option_parameters without the loop over the slots
validate_option_parameters_count_only(option, name, value_list) ==
    IF Len(option.parameters) # Len(value_list)
    THEN [error |-> TRUE,
          diags |-> <<[kind |-> IF Len(option.parameters) = 1
                                THEN "expects_a_parameter"
                                ELSE "expects_parameters",
                       option |-> name, num |-> Len(value_list)]>>]
    ELSE [error |-> FALSE, diags |-> <<>>]

validate_option_parameters(option, name, value_list) ==
    IF Len(option.parameters) # Len(value_list)
    THEN [error |-> TRUE,
          diags |-> <<[kind |-> IF Len(option.parameters) = 1
                                THEN "expects_a_parameter"
                                ELSE "expects_parameters",
                       option |-> name, num |-> Len(value_list)]>>]
    ELSE validate_slots(option, name, value_list, 1)

\* count_required_options testing a flag no definition sets
count_required_options_wrong_flag(options) ==
    Cardinality({j \in DOMAIN options : (options[j].flags \div 2) % 2 # 0})

count_required_options(options) ==
    Cardinality({j \in DOMAIN options : is_required(options[j])})

RECURSIVE missing_required_from(_, _, _)
missing_required_from(options, options_found, j) ==
    IF j > Len(options) THEN <<>>
    ELSE (IF is_required(options[j]) /\ j \notin options_found
          THEN <<[kind |-> "missing_required", option |-> options[j].long_names[1], num |-> j]>>
          ELSE <<>>) \o missing_required_from(options, options_found, j + 1)

\* validate_required_options_found that logs but returns no error
validate_required_options_found_no_error(options, options_found) ==
    [error |-> FALSE, diags |-> missing_required_from(options, options_found, 1)]

validate_required_options_found(options, options_found) ==
    LET d == missing_required_from(options, options_found, 1)
    IN  [error |-> d # <<>>, diags |-> d]

is_switch(option) ==
    Len(option.parameters) = 1 /\ is_boolean(option.parameters[1])

\* index of the first definition one of whose names is name, 0 when none
find_option(options, name) ==
    IF \E j \in DOMAIN options :
          matches(name, options[j].long_names) \/ matches(name, options[j].short_names)
    THEN CHOOSE j \in DOMAIN options :
          /\ matches(name, options[j].long_names) \/ matches(name, options[j].short_names)
          /\ \A m \in 1..(j - 1) :
                ~(matches(name, options[m].long_names) \/ matches(name, options[m].short_names))
    ELSE 0

\* an unknown option that is logged but not counted as an error
unknown_option_silent(st, name) ==
    [st EXCEPT !.diags = Append(@, [kind |-> "invalid_option", option |-> name, num |-> 0])]

\* lines 657-661: no definition has the argument's name
unknown_option(st, name) ==
    [st EXCEPT !.diags = Append(@, [kind |-> "invalid_option", option |-> name, num |-> 0]),
               !.parse_error = TRUE]

\* the definition recorded as seen only when its validation passed
record_match_on_success(st, j, parse_error_this_option) ==
    [st EXCEPT !.parse_error   = @ \/ parse_error_this_option,
               !.options_found = IF parse_error_this_option THEN @ ELSE @ \cup {j}]

\* lines 650-652: the bookkeeping after a definition matched, whatever the
\* outcome of its validation
record_match(st, j, parse_error_this_option) ==
    [st EXCEPT !.parse_error   = @ \/ parse_error_this_option,
               !.options_found = @ \cup {j}]

\* One iteration of the loop over argv in parse_command_line.
\* performs the found action although the option failed its validation
perform_if_found_despite_error(parse_error_this_option, option, config, values, value_list) ==
    perform_action(option.if_found, config, option, values, value_list)

\* lines 645-648: the found action runs only if the option passed validation
perform_if_found(parse_error_this_option, option, config, values, value_list) ==
    IF ~parse_error_this_option
    THEN perform_action(option.if_found, config, option, values, value_list)
    ELSE [config |-> config, thrown |-> FALSE]

parse_argument(st, options, arg) ==
    LET e  == extract_name_and_values(arg)
        j  == find_option(options, e.name)
        s0 == [st EXCEPT !.calls = Append(@, [ev |-> "argument", option |-> 0])]
    IN  IF j = 0
        THEN unknown_option(s0, e.name)
        ELSE
          LET option     == options[j]
              split_list == IF e.values # <<>>
                            THEN IF Len(option.parameters) = 1 THEN <<e.values>>
                                 ELSE IF Len(option.parameters) > 1
                                      THEN split(e.values, option.parameter_delimiter)
                                      ELSE <<>>
                            ELSE <<>>
              shorthand  == e.values = <<>> /\ ~e.separator_present /\ is_switch(option)
              values     == IF shorthand THEN sTrue ELSE e.values
              value_list == IF shorthand THEN Append(split_list, sTrue) ELSE split_list
              v          == IF shorthand
                            THEN [error |-> FALSE, diags |-> <<>>]
                            ELSE validate_option_parameters(option, e.name, value_list)
              r          == perform_if_found(v.error, option, s0.config, values, value_list)
              s1         == [s0 EXCEPT !.diags = @ \o v.diags,
                                       !.calls = IF ~v.error
                                                 THEN Append(@, [ev |-> "if_found", option |-> j])
                                                 ELSE @]
          IN  IF r.thrown
              THEN [s1 EXCEPT !.thrown = TRUE]
              ELSE record_match([s1 EXCEPT !.config = r.config], j, v.error)

RECURSIVE parse_arguments(_, _, _, _)
parse_arguments(st, options, argv, k) ==
    IF k > Len(argv) \/ st.thrown THEN st
    ELSE parse_arguments(parse_argument(st, options, argv[k]), options, argv, k + 1)

\* parse_finish checking the required options even when help was requested
parse_finish_always_checks(st, options) ==
    LET print_help  == NodeValueAsDefaultBool(st.config, "ShowHelp", FALSE)
        req         == validate_required_options_found(options, st.options_found)
        parse_error == st.parse_error \/ req.error
    IN  [diags      |-> st.diags \o req.diags,
         help_shown |-> print_help,
         state      |-> [exit |-> (st.parse_error \/ print_help) \/ parse_error,
                         parse_error |-> parse_error]]

\* parse_finish that does not force the exit when help was requested
parse_finish_no_forced_exit(st, options) ==
    LET print_help  == NodeValueAsDefaultBool(st.config, "ShowHelp", FALSE)
        req         == IF print_help
                       THEN [error |-> FALSE, diags |-> <<>>]
                       ELSE validate_required_options_found(options, st.options_found)
        parse_error == st.parse_error \/ req.error
    IN  [diags      |-> st.diags \o req.diags,
         help_shown |-> print_help,
         state      |-> [exit |-> st.parse_error \/ parse_error,
                         parse_error |-> parse_error]]

\* The part of parse_command_line after the loop: the help flag is read
\* from the tree, help is rendered or the required options are checked,
\* and the parser state is built.
parse_finish(st, options) ==
    LET should_exit == st.parse_error
        print_help  == NodeValueAsDefaultBool(st.config, "ShowHelp", FALSE)
        req         == IF print_help
                       THEN [error |-> FALSE, diags |-> <<>>]
                       ELSE validate_required_options_found(options, st.options_found)
        parse_error == st.parse_error \/ req.error
    IN  [diags      |-> st.diags \o req.diags,
         help_shown |-> print_help,
         state      |-> [exit |-> (should_exit \/ print_help) \/ parse_error,
                         parse_error |-> parse_error]]

\* parse_command_line(config, options, argc, argv) as a whole, for an argument
\* vector argv[1 .. argc - 1]: the tree it leaves, the state it returns and
\* whether it threw instead of returning.
NoState == [exit |-> "none", parse_error |-> "none"]

NewParse(config0) ==
    [config |-> config0, options_found |-> {}, parse_error |-> FALSE,
     diags |-> <<>>, calls |-> <<>>, thrown |-> FALSE]

parse_command_line(config0, options, argv) ==
    IF validate_definition(options)
    THEN [config |-> config0, state |-> NoState, thrown |-> TRUE]
    ELSE IF Len(argv) + 1 = 1 /\ count_required_options(options) > 0
    THEN [config |-> config0, state |-> [exit |-> TRUE, parse_error |-> TRUE], thrown |-> FALSE]
    ELSE LET st == parse_arguments(store_defaults(NewParse(config0), options), options, argv, 1)
         IN  [config |-> st.config,
              state  |-> IF st.thrown THEN NoState ELSE parse_finish(st, options).state,
              thrown |-> st.thrown]

(***************************************************************************)
(* The option tables and the arguments the model explores.                 *)
(***************************************************************************)
nVerbose == <<"-","-","v","e","r","b","o","s","e">>
nQuiet   == <<"-","-","q","u","i","e","t">>
nHelp    == <<"-","-","h","e","l","p">>
nH       == <<"-","h">>
nRange   == <<"-","-","r","a","n","g","e">>
nPort    == <<"-","-","p","o","r","t">>
nBogus   == <<"-","-","b","o","g","u","s">>
nLevel   == <<"-","-","l","e","v","e","l">>

oVerbose == switch_option(nVerbose, "Verbose", None)
oQuiet   == complement_switch_option(nQuiet, "Verbose", None)
oHelp    == switch_option_names(<<nHelp>>, <<nH>>, "ShowHelp", None)
oRange   == multivalued_option(nRange, <<integer("value", 0, 100), string("name")>>, "Range", None)
oPort    == valued_option(nPort, integer("value", 0, 100), "Port", Required)
oLevel   == default_valued_option(nLevel, integer("value", 0, 100), <<"3">>, "Level", None)

\* a table without required options, one with a required option, one whose
\* switch is itself required, and an ill-specified one (a name used twice)
OptionsOptional  == <<oVerbose, oQuiet, oHelp, oRange>>
OptionsRequired  == <<oVerbose, oQuiet, oHelp, oRange, oPort, oLevel>>
OptionsSwitchReq == <<switch_option(nVerbose, "Verbose", Required), oQuiet, oHelp>>
OptionsDuplicate == <<oVerbose, oHelp, valued_option(nVerbose, string("value"), "Level", None)>>

OptionTables == {OptionsOptional, OptionsRequired, OptionsSwitchReq, OptionsDuplicate}

Arg(name, values) == name \o <<"=">> \o values

vMaybe    == <<"m","a","y","b","e">>
vYES      == <<"Y","E","S">>
v42east   == <<"4","2",",","e","a","s","t">>
v200east  == <<"2","0","0",",","e","a","s","t">>
v42       == <<"4","2">>
v80       == <<"8","0">>
vAbc      == <<"a","b","c">>

ArgPool ==
    { nVerbose, Arg(nVerbose, sFalse), Arg(nVerbose, vMaybe), Arg(nVerbose, <<>>),
      nQuiet, Arg(nQuiet, sFalse), Arg(nQuiet, vYES),
      nHelp, nH,
      Arg(nRange, v42east), Arg(nRange, v200east), Arg(nRange, v42),
      Arg(nPort, v80), Arg(nPort, vAbc), nPort,
      Arg(nLevel, <<"7">>), nBogus }

ArgVectors(pool) == UNION { [1..n -> pool] : n \in 0..MaxArgs }

(***************************************************************************)
(* util::word_wrapper (format.cpp).  Indices into a string are the         *)
(* source's, counted from 0; s[k] of the source is s[k + 1] here.          *)
(***************************************************************************)
MaxTextLen == 5
MaxColumns == 4

\* std::string::npos, the largest size_t: no index of the model reaches it
npos == -1

\* std::string(s, pos, n): the characters from pos, n of them at most.  n is
\* a size_t, so a difference below zero wraps to a huge count and the whole
\* rest of the string is taken.
substr(s, pos, n) ==
    IF n < 0 \/ pos + n > Len(s) THEN SubSeq(s, pos + 1, Len(s))
    ELSE SubSeq(s, pos + 1, pos + n)

\* word_wrapper::word_wrapper: m_columns
word_wrapper(columns) == IF columns < 2 THEN 2 ELSE columns

\* keeps the white space the line ends with
gobble_trailing_whitespace_keeps_space(s, end_idx) == end_idx + 1

RECURSIVE gobble_trailing_whitespace(_, _)
gobble_trailing_whitespace(s, end_idx) ==
    IF end_idx > 0 /\ isspace(s[end_idx])
    THEN gobble_trailing_whitespace(s, end_idx - 1)
    ELSE end_idx

\* skips one white-space character at most
gobble_leading_whitespace_skips_one(s, start_idx) ==
    IF start_idx < Len(s) /\ isspace(s[start_idx + 1]) THEN start_idx + 1 ELSE start_idx

RECURSIVE gobble_leading_whitespace(_, _)
gobble_leading_whitespace(s, start_idx) ==
    IF start_idx < Len(s) /\ isspace(s[start_idx + 1])
    THEN gobble_leading_whitespace(s, start_idx + 1)
    ELSE start_idx

\* wrap_line, lines 63-66: the locals before the loop
wrap_line_enter(lines_out, s) ==
    [out |-> lines_out, s |-> s, line_start |-> 0, column |-> 0, last_space |-> npos, i |-> 0]

\* at the final column the scan goes back to the line start and no cut is made
wrap_line_step_rescans(f, max_column) ==
    IF f.column = max_column
    THEN [f EXCEPT !.column = 0, !.last_space = npos, !.i = f.line_start]
    ELSE [f EXCEPT !.last_space = IF isspace(f.s[f.i + 1]) THEN f.i ELSE @,
                   !.column = @ + 1, !.i = @ + 1]

\* cuts at the index whether or not white space was seen
wrap_line_step_hard_cut(f, max_column) ==
    IF f.column = max_column
    THEN [out        |-> Append(f.out, substr(f.s, f.line_start, f.i - f.line_start)),
          s          |-> f.s,
          line_start |-> gobble_leading_whitespace(f.s, f.i),
          column     |-> 0,
          last_space |-> npos,
          i          |-> gobble_leading_whitespace(f.s, f.i)]
    ELSE [f EXCEPT !.column = @ + 1, !.i = @ + 1]

\* a cut in the middle of a word starts the new line one character late
wrap_line_step_drops_cut_char(f, max_column) ==
    LET last_space == IF isspace(f.s[f.i + 1]) THEN f.i ELSE f.last_space
    IN  IF f.column = max_column
        THEN LET line_end   == IF last_space = npos THEN f.i
                               ELSE gobble_trailing_whitespace(f.s, last_space)
                 line_start == IF last_space = npos THEN f.i + 1
                               ELSE gobble_leading_whitespace(f.s, line_end)
             IN  [out        |-> Append(f.out, substr(f.s, f.line_start, line_end - f.line_start)),
                  s          |-> f.s,
                  line_start |-> line_start,
                  column     |-> 0,
                  last_space |-> npos,
                  i          |-> line_start]
        ELSE [f EXCEPT !.last_space = last_space, !.column = @ + 1, !.i = @ + 1]

\* wrap_line, lines 69-91: one iteration of the loop, on the locals
wrap_line_step(f, max_column) ==
    LET last_space == IF isspace(f.s[f.i + 1]) THEN f.i ELSE f.last_space
    IN  IF f.column = max_column
        THEN LET line_end   == IF last_space = npos THEN f.i
                               ELSE gobble_trailing_whitespace(f.s, last_space)
                 line_start == gobble_leading_whitespace(f.s, line_end)
             IN  [out        |-> Append(f.out, substr(f.s, f.line_start, line_end - f.line_start)),
                  s          |-> f.s,
                  line_start |-> line_start,
                  column     |-> 0,
                  last_space |-> npos,
                  i          |-> line_start]
        ELSE [f EXCEPT !.last_space = last_space, !.column = @ + 1, !.i = @ + 1]

\* wrap_line, line 93: the rest of the string is the last line
wrap_line_end(f) == Append(f.out, substr(f.s, f.line_start, Len(f.s) - f.line_start))

RECURSIVE wrap_line_loop(_, _)
wrap_line_loop(f, max_column) ==
    IF f.i < Len(f.s) THEN wrap_line_loop(wrap_line_step(f, max_column), max_column)
    ELSE wrap_line_end(f)

wrap_line(lines_out, s, m_cols) == wrap_line_loop(wrap_line_enter(lines_out, s), m_cols - 1)

RECURSIVE wrap_lines(_, _, _)
wrap_lines(lines_out, split_lines, m_cols) ==
    IF split_lines = <<>> THEN lines_out
    ELSE wrap_lines(wrap_line(lines_out, Head(split_lines), m_cols), Tail(split_lines), m_cols)

\* word_wrapper(columns).wrap_words(str)
wrap_words(str, columns) == wrap_lines(<<>>, split(str, "\n"), word_wrapper(columns))

(***************************************************************************)
(* parse_command_line as a state machine: entry (definition check, the     *)
(* empty-invocation return, the defaults), one step per argument, and the  *)
(* return.                                                                 *)
(***************************************************************************)
VARIABLES
    options,        \* the option definitions passed to the call
    args,           \* argv[1 .. argc - 1]
    pc,             \* "enter", "loop", "returned" or "thrown"
    i,              \* the loop index into argv
    config,         \* the destination tree
    options_found,  \* std::set<size_t> options_found
    parse_error,    \* bool parse_error
    diags,          \* the diagnostics logged, in order
    calls,          \* the actions invoked and the arguments examined, in order
    help_shown,     \* the number of times show_help ran
    state,          \* the parser_state returned, NoState before the return
    wrap_pc,        \* word_wrapper: the position of a wrap_words call
    wrap_str,       \* the text passed to wrap_words
    wrap_columns,   \* the columns passed to the constructor
    m_columns,      \* word_wrapper::m_columns
    lines,          \* wrap_words: the lines of the text still to wrap
    out,            \* wrap_words: the lines produced so far
    frame,          \* wrap_line: s, line_start, column, last_space and i
    tab_str,        \* the text passed to tab_expander::expand
    m_tab_stop,     \* tab_expander::m_tab_stop
    help_pc,        \* show_help: the position in the block of one option
    help_option,    \* the option's description and default_values_description
    widest_syntax,  \* show_help: the widest syntax label
    description_lines,  \* show_help: the lines of the description column
    requests,       \* POST /llava: the form fields of the request each handler serves
    handler_pc,     \* the position of each handler
    response,       \* the content of each handler's httplib::Response
    handed_off,     \* whether each handler called hand_off_request
    mtx,            \* main's std::mutex mtx: the handler holding it, NoThread if free
    push_pc,        \* work-queue variant: the position of each handler
    s_mtx,          \* s_mtx: the thread holding it, NoThread if free
    s_work_queue,   \* s_work_queue
    worker_pc,      \* the position of run_llava_thread
    request,        \* run_llava_thread's local request
    pushed,         \* the requests emplaced, in order
    dequeued,       \* the requests popped, in order
    main_argv,      \* llava-server's argv, the program name first
    main_pc,        \* the position of main
    main_state      \* main's locals and what it printed

parser_vars == <<options, args, pc, i, config, options_found, parse_error, diags, calls,
                 help_shown, state>>

wrap_vars == <<wrap_pc, wrap_str, wrap_columns, m_columns, lines, out, frame>>

tab_vars == <<tab_str, m_tab_stop>>

\* the state of everything but the parser and the word wrapper
help_vars == <<help_pc, help_option, widest_syntax, description_lines>>

web_vars == <<requests, handler_pc, response, handed_off, mtx>>

queue_vars == <<push_pc, s_mtx, s_work_queue, worker_pc, request, pushed, dequeued>>

main_vars == <<main_argv, main_pc, main_state>>

server_vars == <<web_vars, queue_vars, main_vars>>

rest_vars == <<tab_vars, help_vars, server_vars>>

vars == <<parser_vars, wrap_vars, rest_vars>>

NoFrame == [s |-> <<>>, line_start |-> 0, column |-> 0, last_space |-> npos, i |-> 0]

\* wrap_line's locals together with the vector out points to
Locals == [out |-> out, s |-> frame.s, line_start |-> frame.line_start,
           column |-> frame.column, last_space |-> frame.last_space, i |-> frame.i]

\* no word_wrapper is under construction
WrapIdle ==
    /\ wrap_pc = "idle"
    /\ wrap_str = <<>>
    /\ wrap_columns = 0
    /\ m_columns = 0
    /\ lines = <<>>
    /\ out = <<>>
    /\ frame = NoFrame

\* no tab_expander was constructed
TabIdle ==
    /\ tab_str = <<>>
    /\ m_tab_stop = 0

\* show_help is not running
HelpIdle ==
    /\ help_pc = "idle"
    /\ help_option = [description |-> <<>>, default_values_description |-> <<>>]
    /\ widest_syntax = <<>>
    /\ description_lines = <<>>

\* no thread holds the mutex
NoThread == 0

\* no request is being served
WebIdle ==
    /\ requests = <<>>
    /\ handler_pc = <<>>
    /\ response = <<>>
    /\ handed_off = <<>>
    /\ mtx = NoThread

\* the work-queue variant is not running
QueueIdle ==
    /\ push_pc = <<>>
    /\ s_mtx = NoThread
    /\ s_work_queue = <<>>
    /\ worker_pc = "idle"
    /\ request = NoThread
    /\ pushed = <<>>
    /\ dequeued = <<>>

\* main was not entered
MainIdle ==
    /\ main_argv = <<>>
    /\ main_pc = "idle"
    /\ main_state = <<>>

ServerIdle == WebIdle /\ QueueIdle /\ MainIdle

RestIdle == TabIdle /\ HelpIdle /\ ServerIdle

\* no parse call is under way
ParserIdle ==
    /\ options = <<>>
    /\ args = <<>>
    /\ pc = "idle"
    /\ i = 1
    /\ config = EmptyTree
    /\ options_found = {}
    /\ parse_error = FALSE
    /\ diags = <<>>
    /\ calls = <<>>
    /\ help_shown = 0
    /\ state = NoState

argc == Len(args) + 1

Cur == [config |-> config, options_found |-> options_found, parse_error |-> parse_error,
        diags |-> diags, calls |-> calls, thrown |-> FALSE]

InitWith(tables, pool) ==
    /\ options \in tables
    /\ args \in ArgVectors(pool)
    /\ pc = "enter"
    /\ i = 1
    /\ config = EmptyTree
    /\ options_found = {}
    /\ parse_error = FALSE
    /\ diags = <<>>
    /\ calls = <<>>
    /\ help_shown = 0
    /\ state = NoState
    /\ WrapIdle
    /\ RestIdle

Init == InitWith(OptionTables, ArgPool)

\* lines 588-598: validate_definition, the return for an empty invocation
\* with required options, store_defaults
ParseEnter ==
    /\ pc = "enter"
    /\ IF validate_definition(options)
       THEN /\ pc' = "thrown"
            /\ diags' = diags \o validate_definition_diags(options)
            /\ UNCHANGED <<config, calls, help_shown, state>>
       ELSE IF argc = 1 /\ count_required_options(options) > 0
       THEN /\ pc' = "returned"
            /\ help_shown' = help_shown + 1
            /\ state' = [exit |-> TRUE, parse_error |-> TRUE]
            /\ UNCHANGED <<config, diags, calls>>
       ELSE LET st == store_defaults(Cur, options)
            IN  /\ pc' = IF st.thrown THEN "thrown" ELSE "loop"
                /\ config' = st.config
                /\ calls' = st.calls
                /\ UNCHANGED <<diags, help_shown, state>>
    /\ UNCHANGED <<options, args, i, options_found, parse_error, wrap_vars, rest_vars>>

\* lines 599-662: one iteration of the loop over argv
ParseArgument ==
    /\ pc = "loop"
    /\ i < argc
    /\ LET st == parse_argument(Cur, options, args[i])
       IN  /\ config' = st.config
           /\ options_found' = st.options_found
           /\ parse_error' = st.parse_error
           /\ diags' = st.diags
           /\ calls' = st.calls
           /\ pc' = IF st.thrown THEN "thrown" ELSE "loop"
           /\ i' = IF st.thrown THEN i ELSE i + 1
    /\ UNCHANGED <<options, args, help_shown, state, wrap_vars, rest_vars>>

\* lines 664-680: help or the required-option check, and the return
ParseReturn ==
    /\ pc = "loop"
    /\ ~(i < argc)
    /\ LET f == parse_finish(Cur, options)
       IN  /\ diags' = f.diags
           /\ help_shown' = IF f.help_shown THEN help_shown + 1 ELSE help_shown
           /\ parse_error' = f.state.parse_error
           /\ state' = f.state
    /\ pc' = "returned"
    /\ UNCHANGED <<options, args, i, config, options_found, calls, wrap_vars, rest_vars>>

Next == ParseEnter \/ ParseArgument \/ ParseReturn

Spec == Init /\ [][Next]_vars

(***************************************************************************)
(* Vocabulary of the properties.                                           *)
(***************************************************************************)
ArgName(a)      == extract_name_and_values(a).name
ArgText(a)      == extract_name_and_values(a).values
HasSeparator(a) == \E k \in DOMAIN a : a[k] = "="

\* the arguments of the vector that name definition j
Mentions(j) == {k \in DOMAIN args : find_option(options, ArgName(args[k])) = j}

\* the arguments that name another definition writing to the key of j
OthersOnKey(j) ==
    {k \in DOMAIN args :
        LET m == find_option(options, ArgName(args[k]))
        IN  m # 0 /\ m # j /\ options[m].config_key = options[j].config_key}

Unset == <<"(unset)">>
KeyValue(key) == IF key \in DOMAIN config THEN config[key].value ELSE Unset

\* the texts the boolean validator is documented to accept, in any case
AcceptedLiteral(text) ==
    \E b \in BooleanLiterals :
        /\ Len(b) = Len(text)
        /\ \A k \in DOMAIN b : tolower(text[k]) = b[k]

\* the truth value a boolean literal stands for
LiteralMeaning(text) ==
    \E b \in {sTrue, sYes, sOn, sOne} :
        /\ Len(b) = Len(text)
        /\ \A k \in DOMAIN b : tolower(text[k]) = b[k]

BoolText(b) == IF b THEN sTrue ELSE sFalse

\* parse was called with the program name alone and a required definition
EmptyInvocation ==
    /\ Len(args) = 0
    /\ \E j \in DOMAIN options : options[j].flags = Required

SwitchIndices ==
    {j \in DOMAIN options :
        /\ Len(options[j].parameters) = 1
        /\ options[j].parameters[1].type = "boolean"
        /\ options[j].if_found = store_values
        /\ options[j].if_not_found = store_constants(sFalse)}

ComplementIndices ==
    {j \in DOMAIN options :
        /\ Len(options[j].parameters) = 1
        /\ options[j].parameters[1].type = "boolean"
        /\ options[j].if_found = store_inverse_bool
        /\ options[j].if_not_found = do_nothing}

(***************************************************************************)
(* C1: the switch option.                                                  *)
(***************************************************************************)
SwitchAlone(j) == Cardinality(Mentions(j)) <= 1 /\ OthersOnKey(j) = {}

SwitchOutcome(j) ==
    LET key == options[j].config_key
    IN  IF Mentions(j) = {}
        THEN KeyValue(key) = sFalse
        ELSE LET a == args[CHOOSE k \in Mentions(j) : TRUE]
             IN  CASE ~HasSeparator(a) -> KeyValue(key) = sTrue
                   [] HasSeparator(a) /\ ArgText(a) = sFalse -> KeyValue(key) = sFalse
                   [] HasSeparator(a) /\ ~AcceptedLiteral(ArgText(a)) ->
                          state.parse_error = TRUE /\ KeyValue(key) = sFalse
                   [] OTHER -> TRUE

toupper(c) ==
    IF \E k \in DOMAIN LowerCase : LowerCase[k] = c
    THEN UpperCase[CHOOSE k \in DOMAIN LowerCase : LowerCase[k] = c]
    ELSE c

UpperOf(str) == [k \in DOMAIN str |-> toupper(str[k])]

ComplementPool ==
    { nQuiet, nVerbose, Arg(nVerbose, sFalse), Arg(nQuiet, vMaybe), Arg(nQuiet, <<>>),
      Arg(nQuiet, <<"T","r","u","e">>), Arg(nQuiet, <<"o","F","f">>) }
    \cup { Arg(nQuiet, b) : b \in BooleanLiterals }
    \cup { Arg(nQuiet, UpperOf(b)) : b \in BooleanLiterals }

InitComplement == InitWith({OptionsOptional, OptionsRequired}, ComplementPool)

SpecComplement == InitComplement /\ [][Next]_vars

Without(seq, j) == SubSeq(seq, 1, j - 1) \o SubSeq(seq, j + 1, Len(seq))

\* C2: right after an argument naming a complement option was processed, the
\* key holds "false" if the argument was bare and the negation of b if it
\* was =b for an accepted boolean literal b; and when no argument names the
\* complement, its found action never ran and the returned tree is the one
\* the same vector gives against the table without the complement.
C2_Complement ==
    /\ (pc = "loop" /\ i > 1) =>
          LET a == args[i - 1]
              j == find_option(options, ArgName(a))
          IN  j \in ComplementIndices =>
                /\ ~HasSeparator(a) => KeyValue(options[j].config_key) = sFalse
                /\ (HasSeparator(a) /\ AcceptedLiteral(ArgText(a))) =>
                      KeyValue(options[j].config_key) = BoolText(~LiteralMeaning(ArgText(a)))
    /\ pc = "returned" =>
          \A j \in ComplementIndices :
              Mentions(j) = {} =>
                /\ \A c \in DOMAIN calls : calls[c] # [ev |-> "if_found", option |-> j]
                /\ config = parse_command_line(EmptyTree, Without(options, j), args).config

C2_Witness ==
    /\ pc = "loop"
    /\ i > 1
    /\ LET a == args[i - 1]
           j == find_option(options, ArgName(a))
       IN  /\ j \in ComplementIndices
           /\ HasSeparator(a)
           /\ ArgText(a) = UpperOf(sOff)
           /\ KeyValue(options[j].config_key) = sTrue

(***************************************************************************)
(* C3: the multi-slot option.                                              *)
(***************************************************************************)
vEast    == <<"e","a","s","t">>
vAbcEast == <<"a","b","c",",","e","a","s","t">>
v42Comma == <<"4","2",",">>
v7west   == <<"7",",","w","e","s","t">>
v123     == <<"1",",","2",",","3">>

MultiPool ==
    { Arg(nRange, v42east), Arg(nRange, v200east), Arg(nRange, v42), Arg(nRange, vAbcEast),
      Arg(nRange, v42Comma), Arg(nRange, v7west), Arg(nRange, v123), Arg(nRange, <<>>),
      nRange, nBogus, nHelp, Arg(nPort, v80) }

InitMulti == InitWith({OptionsOptional, OptionsRequired}, MultiPool)

SpecMulti == InitMulti /\ [][Next]_vars

MultiIndices ==
    {j \in DOMAIN options : Len(options[j].parameters) > 1 /\ options[j].if_found = store_values}

Parts(a, j) == split(ArgText(a), options[j].parameter_delimiter)

FailingSlots(a, j) ==
    IF Len(Parts(a, j)) # Len(options[j].parameters) THEN {}
    ELSE {k \in DOMAIN options[j].parameters :
            validate(options[j].parameters[k], ArgName(a), Parts(a, j)[k], k).error}

SlotsMatch(a, j) == Len(Parts(a, j)) = Len(options[j].parameters)

\* the diagnostics that report a slot: its 1-based index is in num
SlotDiagnostics == {"not_a_boolean", "not_an_integer", "out_of_range"}

C3_Stored ==
    (pc = "loop" /\ i > 1) =>
        LET a == args[i - 1]
            j == find_option(options, ArgName(a))
        IN  j \in MultiIndices =>
              /\ (SlotsMatch(a, j) /\ FailingSlots(a, j) = {}) =>
                    /\ options[j].config_key \in DOMAIN config
                    /\ config[options[j].config_key].children =
                          [k \in DOMAIN options[j].parameters |->
                              [name |-> options[j].parameters[k].name, value |-> Parts(a, j)[k]]]
              /\ a = Arg(nRange, v42east) =>
                    config[options[j].config_key].children =
                        <<[name |-> "value", value |-> v42], [name |-> "name", value |-> vEast]>>
              /\ \A k \in FailingSlots(a, j) :
                    \E d \in DOMAIN diags :
                        /\ diags[d].kind \in SlotDiagnostics
                        /\ diags[d].option = ArgName(a)
                        /\ diags[d].num = k

C3_Reported ==
    pc = "returned" =>
        \A k \in DOMAIN args :
            LET j == find_option(options, ArgName(args[k]))
            IN  (j \in MultiIndices /\ FailingSlots(args[k], j) # {}) => state.parse_error = TRUE

C3_Untouched ==
    (pc = "loop" /\ i < argc) =>
        LET a == args[i]
            j == find_option(options, ArgName(a))
        IN  (j \in MultiIndices /\ FailingSlots(a, j) # {}) =>
                /\ config' = config
                /\ parse_error' = TRUE

\* C3: an argument of a multi-slot option whose text splits into one value
\* per slot, all valid, leaves one child per slot, in slot order, holding the
\* slot's text; a slot that fails is reported with its 1-based index, the
\* parse returns had_error, and the step that processed the argument left
\* the whole tree as it was.
C3_MultiSlot == []C3_Stored /\ []C3_Reported /\ [][C3_Untouched]_vars

C3_Witness ==
    /\ pc = "loop"
    /\ i > 2
    /\ args[i - 2] = Arg(nRange, v42east)
    /\ args[i - 1] = Arg(nRange, v200east)
    /\ parse_error = TRUE
    /\ config["Range"].children =
          <<[name |-> "value", value |-> v42], [name |-> "name", value |-> vEast]>>

(***************************************************************************)
(* Vocabulary of C4 - C10: what the argument vector asks for, read off the *)
(* vector and the table alone.                                             *)
(***************************************************************************)
ArgUnknown(a) == find_option(options, ArgName(a)) = 0

\* the value list the parser builds for argument a of definition j
ValueList(a, j) ==
    IF ArgText(a) = <<>> THEN <<>>
    ELSE IF Len(options[j].parameters) = 1 THEN <<ArgText(a)>>
    ELSE IF Len(options[j].parameters) > 1 THEN Parts(a, j)
    ELSE <<>>

BareSwitch(a, j) == ~HasSeparator(a) /\ is_switch(options[j])

\* a names a definition and fails its parameter count or a slot validator
ArgInvalid(a) ==
    LET j == find_option(options, ArgName(a))
    IN  /\ j # 0
        /\ ~BareSwitch(a, j)
        /\ validate_option_parameters(options[j], ArgName(a), ValueList(a, j)).error

AnyUnknown == \E k \in DOMAIN args : ArgUnknown(args[k])
AnyInvalid == \E k \in DOMAIN args : ArgInvalid(args[k])

RequiredIndices == {j \in DOMAIN options : options[j].flags = Required}

AnyMissingRequired == \E j \in RequiredIndices : Mentions(j) = {}

\* the help flag of the returned tree is a true literal
HelpRequested ==
    /\ "ShowHelp" \in DOMAIN config
    /\ LiteralMeaning(config["ShowHelp"].value)

MissingReported(j) ==
    \E d \in DOMAIN diags : diags[d].kind = "missing_required" /\ diags[d].num = j

NoMissingReported == \A d \in DOMAIN diags : diags[d].kind # "missing_required"

(***************************************************************************)
(* C4: the returned parser state.                                          *)
(***************************************************************************)
ReturnedStateIs(err) ==
    /\ state.parse_error = err
    /\ state.exit = (err \/ HelpRequested)
    /\ state.parse_error = TRUE => state.exit = TRUE
    /\ (state.exit = TRUE /\ state.parse_error = FALSE) => HelpRequested

\* C4 as stated: had_error is "an unknown option, a count or validator
\* failure, or a missing required option", should_exit is that or help.
C4_AsStated ==
    pc = "returned" => ReturnedStateIs(AnyUnknown \/ AnyInvalid \/ AnyMissingRequired)

\* C4 amended: a missing required option is a parse error only when help
\* was not requested.
C4_ParserState ==
    pc = "returned" =>
        ReturnedStateIs(AnyUnknown \/ AnyInvalid \/ (~HelpRequested /\ AnyMissingRequired))

C4_Witness ==
    /\ pc = "returned"
    /\ HelpRequested
    /\ AnyMissingRequired
    /\ state = [exit |-> TRUE, parse_error |-> FALSE]

(***************************************************************************)
(* C5, C6: required options and the record of the definitions seen.        *)
(***************************************************************************)
\* C5: with an argument supplied and help not requested, a required option
\* no argument names gives had_error after the whole vector was processed;
\* one named with a valid value is recorded as seen and not reported missing.
C5_Required ==
    (pc = "returned" /\ Len(args) >= 1 /\ ~HelpRequested) =>
        \A j \in RequiredIndices :
            /\ Mentions(j) = {} => (state.parse_error = TRUE /\ i = argc)
            /\ (\E k \in Mentions(j) : ~ArgInvalid(args[k])) =>
                  (j \in options_found /\ ~MissingReported(j))

C5_Witness ==
    /\ pc = "returned"
    /\ ~HelpRequested
    /\ \E j \in RequiredIndices :
          /\ \E k \in Mentions(j) : ~ArgInvalid(args[k])
          /\ j \in options_found
    /\ state.parse_error = FALSE

OnlyInvalidMentions(j) ==
    Mentions(j) # {} /\ \A k \in Mentions(j) : ArgInvalid(args[k])

\* C6 as stated: a definition is seen only if an argument naming it passed
\* validation; a required option named only with failing values is not
\* seen and is reported missing.
C6_AsStated ==
    (pc = "returned" /\ ~EmptyInvocation) =>
        \A j \in DOMAIN options :
            /\ j \in options_found => \E k \in Mentions(j) : ~ArgInvalid(args[k])
            /\ (j \in RequiredIndices /\ ~HelpRequested /\ OnlyInvalidMentions(j)) =>
                  (j \notin options_found /\ MissingReported(j))

\* C6 amended: a definition is seen exactly when an argument processed so
\* far names it, whether or not that argument passed validation; a required
\* option named only with failing values is seen and is not reported
\* missing, and had_error is true because of the validation failure.
C6_Seen ==
    /\ pc \in {"loop", "returned"} =>
          options_found = {j \in DOMAIN options : \E k \in Mentions(j) : k < i}
    /\ pc = "returned" =>
          \A j \in RequiredIndices :
              OnlyInvalidMentions(j) =>
                  /\ j \in options_found
                  /\ ~MissingReported(j)
                  /\ state.parse_error = TRUE

C6_Witness ==
    /\ pc = "returned"
    /\ ~HelpRequested
    /\ \E j \in RequiredIndices :
          /\ OnlyInvalidMentions(j)
          /\ j \in options_found
          /\ ~MissingReported(j)

(***************************************************************************)
(* C7, C8: help takes precedence over the required-option check.           *)
(***************************************************************************)
\* C7: the program name alone against a table with a required option:
\* help is rendered, {true, true} is returned, no "missing required
\* option" is logged, and nothing else of the parse has run.
C7_EmptyInvocation ==
    (pc = "returned" /\ EmptyInvocation) =>
        /\ help_shown = 1
        /\ state = [exit |-> TRUE, parse_error |-> TRUE]
        /\ NoMissingReported
        /\ diags = <<>>
        /\ calls = <<>>

C7_Witness ==
    /\ pc = "returned"
    /\ EmptyInvocation
    /\ help_shown = 1
    /\ state = [exit |-> TRUE, parse_error |-> TRUE]

\* C8: when the help flag of the tree is true after the arguments were
\* consumed, should_exit is true, help is rendered once, no required option
\* is reported missing, and had_error is true exactly when an argument was
\* unknown or invalid.
C8_HelpSkipsRequired ==
    (pc = "returned" /\ ~EmptyInvocation /\ HelpRequested) =>
        /\ state.exit = TRUE
        /\ help_shown = 1
        /\ NoMissingReported
        /\ state.parse_error = (AnyUnknown \/ AnyInvalid)

C8_Witness ==
    /\ pc = "returned"
    /\ HelpRequested
    /\ AnyMissingRequired
    /\ AnyUnknown
    /\ state.parse_error = TRUE
    /\ NoMissingReported

(***************************************************************************)
(* C9: the defaults are stored first.                                      *)
(***************************************************************************)
\* every not-found action ran once, in declaration order, before anything else
DefaultsFirst ==
    /\ Len(calls) >= Len(options)
    /\ \A j \in DOMAIN options : calls[j] = [ev |-> "if_not_found", option |-> j]
    /\ \A c \in DOMAIN calls : c > Len(options) => calls[c].ev # "if_not_found"

Populated ==
    \A j \in DOMAIN options :
        options[j].if_not_found.kind = "store_constant_values" =>
            options[j].config_key \in DOMAIN config

KnownArgs == SelectSeq(args, LAMBDA a : ~ArgUnknown(a))

C10_SameTree ==
    (pc = "returned" /\ AnyUnknown /\ Len(KnownArgs) >= 1) =>
        /\ config = parse_command_line(EmptyTree, options, KnownArgs).config
        /\ state.parse_error = TRUE

C10_Continues ==
    (pc = "loop" /\ i < argc /\ ArgUnknown(args[i])) =>
        /\ config' = config
        /\ parse_error' = TRUE
        /\ pc' = "loop"
        /\ i' = i + 1

\* C10: the step that processes an unknown argument sets the error flag,
\* leaves the tree as it was and goes on to the next argument; when the
\* vector holds an unknown argument and at least one other, the returned
\* tree is the one the vector without its unknown arguments gives, and
\* had_error is true.
C10_Unknown == []C10_SameTree /\ [][C10_Continues]_vars

C10_Witness ==
    /\ pc = "returned"
    /\ Len(args) = 2
    /\ ArgUnknown(args[1])
    /\ args[2] = nVerbose
    /\ KeyValue("Verbose") = sTrue
    /\ state.parse_error = TRUE

(***************************************************************************)
(* C11: an argument that fails its validation.                             *)
(***************************************************************************)
\* the step that processes an argument naming a definition and failing its
\* parameter count or a slot validator
FailingStep == pc = "loop" /\ i < argc /\ ArgInvalid(args[i])

nFlag == <<"-", "-", "f", "l", "a", "g">>

\* an option declared with no parameter slot
oFlag == multivalued_option(nFlag, <<>>, "Flag", None)

OptionsCount == <<oHelp, oFlag, oPort, oRange>>

CountPool ==
    { nFlag, Arg(nFlag, vAbc), Arg(nFlag, <<>>),
      nPort, Arg(nPort, <<>>), Arg(nPort, v80),
      nRange, Arg(nRange, v42), Arg(nRange, v123), Arg(nRange, v42east),
      nHelp }

InitCount == InitWith({OptionsCount}, CountPool)

SpecCount == InitCount /\ [][Next]_vars

\* the number of values argument a supplies to definition j: none without
\* a value text, one per delimited part for a multi-slot option, else one
SuppliedCount(a, j) ==
    IF ArgText(a) = <<>> THEN 0
    ELSE IF Len(options[j].parameters) > 1 THEN Len(Parts(a, j))
    ELSE 1

\* a names a definition and supplies a number of values other than its
\* number of slots, the bare-switch shorthand excepted
CountMismatch(a) ==
    LET j == find_option(options, ArgName(a))
    IN  /\ j # 0
        /\ ~BareSwitch(a, j)
        /\ SuppliedCount(a, j) # Len(options[j].parameters)

C12_Reported ==
    pc = "returned" =>
        ((\E k \in DOMAIN args : CountMismatch(args[k])) => state.parse_error = TRUE)

C12_NotInvoked ==
    (pc = "loop" /\ i < argc /\ CountMismatch(args[i])) =>
        /\ parse_error' = TRUE
        /\ calls' = Append(calls, [ev |-> "argument", option |-> 0])
        /\ config' = config

\* C12 as stated: whenever an argument names a declared option and supplies
\* a number of values other than the option's number of slots (the
\* bare-switch shorthand excepted), the parse returns had_error = true and
\* the step that processed the argument invoked no found action, for every
\* slot count, zero included.
C12_AsStated == []C12_Reported /\ [][C12_NotInvoked]_vars

(***************************************************************************)
(* C13, C14: the definition validator.  The tables are drawn from          *)
(* definitions whose name lists cover each rule: a name shared by two      *)
(* definitions (long/long, short/short, long/short), a name repeated       *)
(* within one definition, no long name, only an empty long name, '=' in a  *)
(* long or a short name, and an empty name next to a proper one.           *)
(***************************************************************************)
MaxDefs == 2

nA     == <<"-", "-", "a">>
nB     == <<"-", "-", "b">>
nC     == <<"-", "c">>
nD     == <<"-", "-", "d">>
nEmpty == <<>>
nEq    == <<"-", "-", "a", "=", "b">>
nCeq   == <<"-", "=">>

Definition(long_names, short_names) ==
    [valued_option(nA, string("value"), "Value", None)
        EXCEPT !.long_names = long_names, !.short_names = short_names]

DefinitionPool ==
    { Definition(<<nA>>, <<>>),       Definition(<<nB>>, <<nC>>),
      Definition(<<nA>>, <<nC>>),     Definition(<<nD>>, <<nA>>),
      Definition(<<nA, nA>>, <<>>),   Definition(<<>>, <<nC>>),
      Definition(<<nEmpty>>, <<>>),   Definition(<<nEq>>, <<>>),
      Definition(<<nD>>, <<nCeq>>),   Definition(<<nD, nEmpty>>, <<>>),
      Definition(<<nA, nEmpty>>, <<>>) }

DefinitionTables == UNION { [1..n -> DefinitionPool] : n \in 0..MaxDefs }

DefinitionArgs == { nA, Arg(nB, vAbc) }

InitDefinitions == InitWith(DefinitionTables, DefinitionArgs)

SpecDefinitions == InitDefinitions /\ [][Next]_vars

\* the names of definition j, long and short
NamesOf(j) ==
    {options[j].long_names[k] : k \in DOMAIN options[j].long_names}
        \cup {options[j].short_names[k] : k \in DOMAIN options[j].short_names}

\* two definitions share a long or short name
TwoShareName == \E a \in DOMAIN options : \E b \in DOMAIN options :
                    a # b /\ NamesOf(a) \cap NamesOf(b) # {}

\* the occurrences of names in the table: <<definition, list, position>>
Occurrences ==
    {<<j, "long", k>> : j \in DOMAIN options, k \in 1..2}
        \cup {<<j, "short", k>> : j \in DOMAIN options, k \in 1..2}

Declared == {o \in Occurrences :
                o[3] <= Len(IF o[2] = "long" THEN options[o[1]].long_names
                                             ELSE options[o[1]].short_names)}

NameAt(o) == IF o[2] = "long" THEN options[o[1]].long_names[o[3]]
                               ELSE options[o[1]].short_names[o[3]]

PairwiseDistinct == \A o \in Declared : \A q \in Declared : o # q => NameAt(o) # NameAt(q)

LacksLongName == \E j \in DOMAIN options :
                    \A k \in DOMAIN options[j].long_names : options[j].long_names[k] = <<>>

HoldsEquals == \E o \in Declared : \E c \in DOMAIN NameAt(o) : NameAt(o)[c] = "="

Validated == pc # "enter"
Rejected  == pc = "thrown"

\* C13 as stated: rejected when two definitions share a name, accepted when
\* all names are pairwise distinct.
C13_AsStated ==
    Validated => /\ TwoShareName => Rejected
                 /\ PairwiseDistinct => ~Rejected

\* C13 amended: rejected when two definitions share a name or one
\* definition repeats a name; a table whose names are pairwise distinct is
\* accepted exactly when, besides, every definition has a non-empty long
\* name and no name holds '='.
C13_Validator ==
    Validated => /\ TwoShareName => Rejected
                 /\ ~PairwiseDistinct => Rejected
                 /\ PairwiseDistinct => (Rejected <=> (LacksLongName \/ HoldsEquals))

C13_Witness ==
    /\ pc = "loop"
    /\ Len(options) = 2
    /\ options[1] = Definition(<<nB>>, <<nC>>)
    /\ options[2] = Definition(<<nD>>, <<nA>>)
    /\ PairwiseDistinct
    /\ i = 2
    /\ KeyValue("Value") = vAbc

(***************************************************************************)
(* C14: an ill-specified table is fatal before anything else happens.      *)
(***************************************************************************)
NameRuleViolated == ~PairwiseDistinct \/ LacksLongName \/ HoldsEquals

\* C14: when the table has a duplicate name, a definition without a
\* non-empty long name or a name holding '=', the parse throws instead of
\* returning a parser state, with no action run, no argument examined and
\* the tree as it was passed in.
C14_FatalFirst ==
    NameRuleViolated =>
        /\ pc \in {"enter", "thrown"}
        /\ state = NoState
        /\ calls = <<>>
        /\ i = 1
        /\ options_found = {}
        /\ config = EmptyTree

C14_Witness ==
    /\ pc = "thrown"
    /\ Len(args) = 2
    /\ Len(options) = 2
    /\ options[1] = Definition(<<nA>>, <<>>)
    /\ options[2] = Definition(<<nD>>, <<nCeq>>)
    /\ PairwiseDistinct /\ ~LacksLongName /\ HoldsEquals
    /\ config = EmptyTree

(***************************************************************************)
(* C15: the inverted-boolean action on an option with two slots.           *)
(***************************************************************************)
nInverse == <<"-", "-", "n", "o", "-", "b", "o", "t", "h">>

vTrueFalse == <<"t", "r", "u", "e", ",", "f", "a", "l", "s", "e">>

oInverse ==
    [multivalued_option(nInverse, <<boolean("first"), boolean("second")>>, "Verbose", None)
        EXCEPT !.if_found = store_inverse_bool]

OptionsInverse == <<oVerbose, oHelp, oInverse>>

InversePool ==
    { nVerbose, nHelp, nBogus,
      nInverse, Arg(nInverse, sTrue), Arg(nInverse, vTrueFalse), Arg(nInverse, vMaybe) }

InitInverse == InitWith({OptionsInverse}, InversePool)

SpecInverse == InitInverse /\ [][Next]_vars

\* the table attaches store-inverted-boolean to an option with several slots
InverseOnMultiSlot ==
    \E j \in DOMAIN options :
        options[j].if_found = store_inverse_bool /\ Len(options[j].parameters) > 1

\* C15 as stated: a table attaching the store-inverted-boolean action to an
\* option with more than one slot makes every parse throw, whatever the
\* argument vector, before any argument is examined and before any write
\* to the tree.
C15_AsStated ==
    InverseOnMultiSlot =>
        /\ pc \in {"enter", "thrown"}
        /\ calls = <<>>
        /\ i = 1
        /\ config = EmptyTree

(***************************************************************************)
(* C16 - C18: the integer validator.  One table per choice of bounds: in   *)
(* order with 0 inside, in order with 0 outside on either side, a single   *)
(* point, declared in reverse order, and none.                             *)
(***************************************************************************)
IntegerTable(parameter) ==
    <<oHelp,
      valued_option(nPort, parameter, "Port", None),
      multivalued_option(nRange, <<parameter, string("name")>>, "Range", None)>>

IntegerParameters ==
    { integer("value", 0, 100), integer("value", 10, 100), integer("value", -100, -5),
      integer("value", 42, 42), integer("value", 100, 0), integer_unbounded("value") }

IntegerTables == {IntegerTable(parameter) : parameter \in IntegerParameters}

v200     == <<"2", "0", "0">>
vMinus7  == <<"-", "7">>
v42abc   == <<"4", "2", "a", "b", "c">>
vSpace42 == <<" ", "4", "2">>
vHuge    == <<"9","9","9","9","9","9","9","9","9","9","9","9","9","9","9","9","9","9","9","9">>
vCommaEast == <<",", "e", "a", "s", "t">>

IntegerPool ==
    { Arg(nPort, v42), Arg(nPort, v200), Arg(nPort, vMinus7), Arg(nPort, v42abc),
      Arg(nPort, vAbc), Arg(nPort, vSpace42), Arg(nPort, <<>>), Arg(nPort, vHuge),
      Arg(nRange, vCommaEast), Arg(nRange, v42east) }

InitInteger == InitWith(IntegerTables, IntegerPool)

SpecInteger == InitInteger /\ [][Next]_vars

\* a names a definition whose first slot is an integer and supplies one
\* value per slot, so that the slot validators run
IntegerArg(a) ==
    LET j == find_option(options, ArgName(a))
    IN  /\ j # 0
        /\ Len(options[j].parameters) >= 1
        /\ options[j].parameters[1].type = "integer"
        /\ SuppliedCount(a, j) = Len(options[j].parameters)

IntegerSlot(a) == options[find_option(options, ArgName(a))].parameters[1]

\* the text handed to the integer slot
IntegerText(a) ==
    LET j == find_option(options, ArgName(a))
    IN  IF Len(options[j].parameters) = 1 THEN ArgText(a) ELSE Parts(a, j)[1]

\* text is a numeral as a whole: an optional '-' and then digits only
NumeralDigits(text) == IF text # <<>> /\ Head(text) = "-" THEN Tail(text) ELSE text
IsNumeral(text) ==
    /\ NumeralDigits(text) # <<>>
    /\ \A k \in DOMAIN NumeralDigits(text) : isdigit(NumeralDigits(text)[k])

\* the numeral has fewer digits than the limits of int64_t
FitsInt64(text) == Len(NumeralDigits(text)) < Len(Int64MaxDigits)

RECURSIVE DigitsValue(_)
DigitsValue(d) ==
    IF d = <<>> THEN 0 ELSE 10 * DigitsValue(SubSeq(d, 1, Len(d) - 1)) + DigitValue(d[Len(d)])

NumeralValue(text) ==
    IF Head(text) = "-" THEN 0 - DigitsValue(NumeralDigits(text))
    ELSE DigitsValue(NumeralDigits(text))

\* the step that processes the argument under the index
IntegerStep == pc = "loop" /\ i < argc /\ IntegerArg(args[i])

\* the step invoked the found action / logged exactly this diagnostic
StepAccepts == calls' = calls \o <<[ev |-> "argument", option |-> 0],
                                   [ev |-> "if_found",
                                    option |-> find_option(options, ArgName(args[i]))]>>
StepRejects == calls' = Append(calls, [ev |-> "argument", option |-> 0])
StepLogs(kind) ==
    diags' = Append(diags, [kind |-> kind, option |-> ArgName(args[i]), num |-> 1])

\* C16 as stated: an integer slot declared with lower > upper accepts
\* exactly the integers v with upper <= v <= lower.
C16_AsStated ==
    [][(/\ IntegerStep
        /\ IntegerSlot(args[i]).bounds_check_required
        /\ IntegerSlot(args[i]).lower_bound > IntegerSlot(args[i]).upper_bound
        /\ IsNumeral(IntegerText(args[i])) /\ FitsInt64(IntegerText(args[i])))
       => (StepAccepts <=>
              /\ IntegerSlot(args[i]).upper_bound <= NumeralValue(IntegerText(args[i]))
              /\ NumeralValue(IntegerText(args[i])) <= IntegerSlot(args[i]).lower_bound)]_vars

\* C17 as stated: an integer slot passes if and only if the whole text is a
\* numeral that fits 64 bits and, with bounds declared, lies in
\* [lower, upper].
C17_AsStated ==
    [][IntegerStep =>
          (StepAccepts <=>
              /\ IsNumeral(IntegerText(args[i]))
              /\ FitsInt64(IntegerText(args[i]))
              /\ IntegerSlot(args[i]).bounds_check_required =>
                    /\ IntegerSlot(args[i]).lower_bound <= NumeralValue(IntegerText(args[i]))
                    /\ NumeralValue(IntegerText(args[i])) <= IntegerSlot(args[i]).upper_bound)]_vars

\* the extraction finds no integer: after leading blanks and a sign there is
\* no digit, or the digits overflow 64 bits
NoDigit(text) ==
    LET s0 == SkipSpace(text)
        s1 == IF s0 # <<>> /\ Head(s0) \in {"-", "+"} THEN Tail(s0) ELSE s0
    IN  s1 = <<>> \/ ~isdigit(Head(s1))
TooLong(text) == IsNumeral(text) /\ ~FitsInt64(text)
Unparsable(text) == NoDigit(text) \/ TooLong(text)

v12 == <<"1", ",", "2">>
v5  == <<"5">>
v7  == <<"7">>

oRangeDefault ==
    default_multivalued_option(nRange, <<integer("value", 0, 100), string("name")>>,
                               v7west, "Range", None)
oLevelOnRange ==
    default_valued_option(nLevel, integer("level", 0, 100), <<"3">>, "Range", None)
oShortDefault ==
    default_multivalued_option(nPort, <<integer("low", 0, 100), integer("high", 0, 100)>>,
                               v5, "Range", None)

OptionsStore        == <<oVerbose, oQuiet, oRangeDefault, oLevelOnRange, oShortDefault>>
OptionsStoreReverse == <<oQuiet, oVerbose, oShortDefault, oLevelOnRange, oRangeDefault>>

StorePool ==
    { nVerbose, Arg(nVerbose, sFalse), nQuiet, Arg(nQuiet, vYES),
      Arg(nRange, v42east), Arg(nRange, v200east), Arg(nLevel, v7),
      Arg(nPort, v12), Arg(nPort, v80), nBogus }

InitStore == InitWith({OptionsStore, OptionsStoreReverse}, StorePool)

SpecStore == InitStore /\ [][Next]_vars

Keys == {options[j].config_key : j \in DOMAIN options}

\* the arguments processed so far whose found action stored at key
FoundStores(key) ==
    {k \in 1..(i - 1) :
        LET j == find_option(options, ArgName(args[k]))
        IN  j # 0 /\ options[j].config_key = key /\ ~ArgInvalid(args[k])}

\* the definitions whose not-found action stores a default at key
DefaultStores(key) ==
    {j \in DOMAIN options :
        options[j].config_key = key /\ options[j].if_not_found.kind = "store_constant_values"}

Last(S) == CHOOSE x \in S : \A y \in S : y <= x

\* the most recent store on key: its definition, raw text and value list
LastStore(key) ==
    IF FoundStores(key) # {}
    THEN LET a == args[Last(FoundStores(key))]
             j == find_option(options, ArgName(a))
             inverted == BoolText(~LiteralMeaning(IF BareSwitch(a, j) THEN sTrue ELSE ArgText(a)))
         IN  IF options[j].if_found = store_inverse_bool
             THEN [option |-> j, text |-> inverted, list |-> <<inverted>>]
             ELSE IF BareSwitch(a, j)
             THEN [option |-> j, text |-> sTrue, list |-> <<sTrue>>]
             ELSE [option |-> j, text |-> ArgText(a), list |-> ValueList(a, j)]
    ELSE LET j == Last(DefaultStores(key))
             text == options[j].if_not_found.m_constant_values
         IN  [option |-> j, text |-> text, list |-> split(text, options[j].parameter_delimiter)]

\* one child per slot, in slot order, if there is one value per slot
ChildrenOf(store) ==
    LET parameters == options[store.option].parameters
    IN  IF Len(store.list) = Len(parameters)
        THEN [k \in 1..Len(parameters) |-> [name |-> parameters[k].name, value |-> store.list[k]]]
        ELSE <<>>

\* C19: after the defaults and any number of found actions, every key that
\* was stored to holds the raw text of the most recent store on it and
\* exactly the children of that store: one per slot, in slot order, if the
\* store had one value per slot, none otherwise; a key never stored to is
\* absent.
C19_LastStore ==
    pc \in {"loop", "returned"} =>
        \A key \in Keys :
            IF FoundStores(key) = {} /\ DefaultStores(key) = {}
            THEN key \notin DOMAIN config
            ELSE /\ key \in DOMAIN config
                 /\ config[key] = [value    |-> LastStore(key).text,
                                   children |-> ChildrenOf(LastStore(key))]

C19_Witness ==
    /\ pc = "loop"
    /\ i = 3
    /\ options = OptionsStore
    /\ args = <<Arg(nRange, v42east), Arg(nLevel, v7)>>
    /\ config["Range"] = [value |-> v7, children |-> <<[name |-> "level", value |-> v7]>>]

(***************************************************************************)
(* word_wrapper as a state machine: the constructor, wrap_words' split and *)
(* loop over the lines, wrap_line's loop one iteration at a time.  The     *)
(* texts are drawn over a letter, a blank and a newline.                   *)
(***************************************************************************)
WrapChars == {"a", " ", "\n"}

WrapTexts == UNION { [1..n -> WrapChars] : n \in 0..MaxTextLen }

InitWrap ==
    /\ ParserIdle
    /\ RestIdle
    /\ wrap_pc = "construct"
    /\ wrap_str \in WrapTexts
    /\ wrap_columns \in 1..MaxColumns
    /\ m_columns = 0
    /\ lines = <<>>
    /\ out = <<>>
    /\ frame = NoFrame

\* lines 44-48: m_columns is clamped to 2; a build with assertions stops at
\* assert(columns >= 2) instead
WrapConstruct ==
    /\ wrap_pc = "construct"
    /\ m_columns' = word_wrapper(wrap_columns)
    /\ \/ wrap_pc' = "wrap_words"
       \/ wrap_columns < 2 /\ wrap_pc' = "aborted"
    /\ UNCHANGED <<parser_vars, rest_vars, wrap_str, wrap_columns, lines, out, frame>>

\* lines 52-53: the text is split at the newlines
WrapWords ==
    /\ wrap_pc = "wrap_words"
    /\ lines' = split(wrap_str, "\n")
    /\ out' = <<>>
    /\ wrap_pc' = "for"
    /\ UNCHANGED <<parser_vars, rest_vars, wrap_str, wrap_columns, m_columns, frame>>

\* lines 54-56 and 63-66: wrap_line is entered for the next line
WrapLineEnter ==
    /\ wrap_pc = "for"
    /\ lines # <<>>
    /\ frame' = [k \in DOMAIN NoFrame |-> wrap_line_enter(out, Head(lines))[k]]
    /\ lines' = Tail(lines)
    /\ wrap_pc' = "wrap_line"
    /\ UNCHANGED <<parser_vars, rest_vars, wrap_str, wrap_columns, m_columns, out>>

\* lines 67-92: one iteration of wrap_line's loop
WrapLineStep ==
    /\ wrap_pc = "wrap_line"
    /\ frame.i < Len(frame.s)
    /\ LET f == wrap_line_step(Locals, m_columns - 1)
       IN  /\ out' = f.out
           /\ frame' = [k \in DOMAIN NoFrame |-> f[k]]
    /\ UNCHANGED <<parser_vars, rest_vars, wrap_pc, wrap_str, wrap_columns, m_columns, lines>>

\* line 93: the loop is over, the rest of the line is emitted
WrapLineEnd ==
    /\ wrap_pc = "wrap_line"
    /\ ~(frame.i < Len(frame.s))
    /\ out' = wrap_line_end(Locals)
    /\ wrap_pc' = "for"
    /\ UNCHANGED <<parser_vars, rest_vars, wrap_str, wrap_columns, m_columns, lines, frame>>

\* line 58: return out
WrapReturn ==
    /\ wrap_pc = "for"
    /\ lines = <<>>
    /\ wrap_pc' = "returned"
    /\ UNCHANGED <<parser_vars, rest_vars, wrap_str, wrap_columns, m_columns, lines, out, frame>>

NextWrap ==
    WrapConstruct \/ WrapWords \/ WrapLineEnter \/ WrapLineStep \/ WrapLineEnd \/ WrapReturn

SpecWrap == InitWrap /\ [][NextWrap]_vars

(***************************************************************************)
(* C20: wrapping the wrapped text again.                                   *)
(***************************************************************************)
\* the lines joined with the separator (util::format(separator).join)
RECURSIVE join(_, _)
join(separator, collection) ==
    IF collection = <<>> THEN <<>>
    ELSE IF Len(collection) = 1 THEN Head(collection)
    ELSE Head(collection) \o separator \o join(separator, Tail(collection))

\* C20: for every text and every width w >= 2, the lines wrap_words returns,
\* joined with newlines and wrapped again at w, come back as the same list
\* of lines.
C20_Idempotent ==
    (wrap_pc = "returned" /\ wrap_columns >= 2) =>
        /\ out = wrap_words(wrap_str, wrap_columns)
        /\ wrap_words(join(<<"\n">>, out), wrap_columns) = out

C20_Witness ==
    /\ wrap_pc = "returned"
    /\ wrap_columns = 3
    /\ wrap_str = <<"a", " ", "a", "a", "a">>
    /\ out = << <<"a">>, <<"a", "a">>, <<"a">> >>
    /\ wrap_words(join(<<"\n">>, out), wrap_columns) = out

(***************************************************************************)
(* tab_expander, and word wrapping applied to the expanded text.  The      *)
(* texts are drawn over a letter, a blank, a tab and a newline; the tab    *)
(* stop is at least 1 (a tab stop of 0 divides by zero in line 24).        *)
(***************************************************************************)
MaxTabLen == 3
MaxTabStop == 3

\* line 24: the column of the next tab stop
next_tab(column, tab_stop) == (column + tab_stop) - ((column + tab_stop) % tab_stop)

\* lines 25-29: the blanks that take the column to the next tab stop
Spaces(n) == [k \in 1..n |-> " "]

\* lines 20-40: the loop over the characters, e and column as they stand
RECURSIVE expand_from(_, _, _, _)
expand_from(str, e, column, tab_stop) ==
    IF str = <<>> THEN e
    ELSE IF Head(str) = "\t"
    THEN expand_from(Tail(str), e \o Spaces(next_tab(column, tab_stop) - column),
                     next_tab(column, tab_stop), tab_stop)
    ELSE expand_from(Tail(str), Append(e, Head(str)),
                     IF Head(str) = "\n" THEN 0 ELSE column + 1, tab_stop)

\* tab_expander(tab_stop).expand(str)
expand(str, tab_stop) == expand_from(str, <<>>, 0, tab_stop)

TabChars == {"a", " ", "\t", "\n"}

TabTexts == UNION { [1..n -> TabChars] : n \in 0..MaxTabLen }

InitTab ==
    /\ ParserIdle
    /\ HelpIdle
    /\ ServerIdle
    /\ tab_str \in TabTexts
    /\ m_tab_stop \in 1..MaxTabStop
    /\ wrap_pc = "expand"
    /\ wrap_str = <<>>
    /\ wrap_columns \in 1..MaxColumns
    /\ m_columns = 0
    /\ lines = <<>>
    /\ out = <<>>
    /\ frame = NoFrame

\* the expanded text is what is handed to wrap_words
TabExpand ==
    /\ wrap_pc = "expand"
    /\ wrap_str' = expand(tab_str, m_tab_stop)
    /\ wrap_pc' = "construct"
    /\ UNCHANGED <<parser_vars, rest_vars, wrap_columns, m_columns, lines, out, frame>>

NextTab == TabExpand \/ NextWrap

SpecTab == InitTab /\ [][NextTab]_vars

(***************************************************************************)
(* C21: a cut never splits a run of white space.                           *)
(***************************************************************************)
\* the iteration of wrap_line about to run is one that cuts
CutStep ==
    /\ wrap_pc = "wrap_line"
    /\ frame.i < Len(frame.s)
    /\ frame.column = m_columns - 1

\* the text being wrapped is the expansion, and no tab is left in it
Expanded ==
    wrap_pc # "expand" =>
        /\ wrap_str = expand(tab_str, m_tab_stop)
        /\ \A k \in DOMAIN wrap_str : wrap_str[k] # "\t"

\* the line the cut emitted does not end with white space, the next line
\* does not begin with white space, and every character between the two is
\* white space
WholeRunDropped ==
    LET s     == frame.s
        line  == out'[Len(out')]
        end   == frame.line_start + Len(line)
        start == frame'.line_start
    IN  /\ Len(out') = Len(out) + 1
        /\ line = <<>> \/ ~isspace(line[Len(line)])
        /\ start = Len(s) \/ ~isspace(s[start + 1])
        /\ end <= start
        /\ \A k \in (end + 1)..start : isspace(s[k])

\* C21: for every text, tab stop and width, the text handed to the wrapper
\* is the tab-expanded one with no tab left, and every cut drops the whole
\* white-space run around it: the emitted line does not end with white
\* space, the next line does not begin with white space, and only white
\* space lies between them.
C21_NoSplitRun ==
    /\ []Expanded
    /\ [][CutStep => WholeRunDropped]_vars

\* a cut at a column inside the blanks a tab expanded to
C21_Witness ==
    /\ wrap_pc = "wrap_line"
    /\ tab_str = <<"a", "\t", "a">>
    /\ m_tab_stop = 3
    /\ wrap_columns = 3
    /\ wrap_str = <<"a", " ", " ", "a">>
    /\ out = << <<"a">> >>
    /\ frame.line_start = 3

(***************************************************************************)
(* C22: the length of the lines and the place of the cut.                  *)
(***************************************************************************)
\* the white space seen since the line start, the character under the index
\* included (indices as in the source, from 0)
SpacesSinceLineStart == {k \in frame.line_start..frame.i : isspace(frame.s[k + 1])}

\* the cut is at the most recent white space: the emitted line runs from the
\* line start to the white-space run that space belongs to, and the next
\* line starts after it
CutAtSpace(recent) ==
    LET line == out'[Len(out')]
        end  == frame.line_start + Len(line)
    IN  /\ line = SubSeq(frame.s, frame.line_start + 1, end)
        /\ end <= recent
        /\ \A k \in end..recent : isspace(frame.s[k + 1])
        /\ line = <<>> \/ ~isspace(line[Len(line)])
        /\ frame'.line_start > recent

\* the cut is in the middle of a word: the emitted line is the w - 1
\* characters before the index and the next line starts at the index
CutInWord ==
    /\ out'[Len(out')] = SubSeq(frame.s, frame.line_start + 1, frame.i)
    /\ Len(out'[Len(out')]) = wrap_columns - 1
    /\ frame'.line_start = frame.i
    /\ frame.i > 0
    /\ ~isspace(frame.s[frame.i])

\* C22: at width w >= 2 every line produced has at most w - 1 characters;
\* a cut is taken at the most recent white space since the line start, and
\* only when there is none is the line cut in the middle of a word.
C22_LengthAndCut ==
    /\ [](wrap_columns >= 2 => \A k \in DOMAIN out : Len(out[k]) <= wrap_columns - 1)
    /\ [][(CutStep /\ wrap_columns >= 2) =>
            /\ Len(out') = Len(out) + 1
            /\ IF SpacesSinceLineStart # {} THEN CutAtSpace(Last(SpacesSinceLineStart))
               ELSE CutInWord]_vars

\* both kinds of cut in one text: "aaa a" at width 3 gives aa / a / a
C22_Witness ==
    /\ wrap_pc = "returned"
    /\ wrap_columns = 3
    /\ wrap_str = <<"a", "a", "a", " ", "a">>
    /\ out = << <<"a", "a">>, <<"a">>, <<"a">> >>

(***************************************************************************)
(* C27: wrapping discards white space only.                                *)
(***************************************************************************)
\* the characters of a text that are not white space, in order
NonSpace(text) == SelectSeq(text, LAMBDA c : ~isspace(c))

\* C27: for every text and width w >= 2, the characters other than white
\* space of the returned lines, concatenated in order, are those of the
\* text in the same order.
C27_OnlySpaceDiscarded ==
    (wrap_pc = "returned" /\ wrap_columns >= 2) =>
        NonSpace(join(<<>>, out)) = NonSpace(wrap_str)

\* a text with a cut at white space and a newline
C27_Witness ==
    /\ wrap_pc = "returned"
    /\ wrap_columns = 3
    /\ wrap_str = <<"a", " ", "a", "a", "\n">>
    /\ out = << <<"a">>, <<"a", "a">>, <<>> >>
    /\ NonSpace(join(<<>>, out)) = <<"a", "a", "a">>

(***************************************************************************)
(* show_help: the description column of one option.  The description is    *)
(* wrapped by the word_wrapper state machine at the width show_help        *)
(* computes from the widest syntax label, then the default values are      *)
(* added.  Descriptions are one or two words of a given length, so that    *)
(* the last line falls on either side of the width.                        *)
(***************************************************************************)
display_columns == 80

description_min_columns == 80 - 36

\* line 827
columns_available(widest_length) ==
    IF widest_length > display_columns THEN 0 ELSE display_columns - widest_length

\* line 828
description_start_column(widest_length) ==
    IF columns_available(widest_length) < description_min_columns
    THEN display_columns - description_min_columns
    ELSE widest_length

\* line 829
description_columns(widest_length) == 80 - description_start_column(widest_length)

\* lines 835-839: the text of the default values, empty if none is declared
defaults_text(default_values_description) ==
    IF Len(default_values_description) > 0
    THEN <<"[", "D", "e", "f", "a", "u", "l", "t", ":", " ">> \o default_values_description
         \o <<"]">>
    ELSE <<>>

\* line 857
length_with_defaults(last_line, defaults) == Len(last_line) + 1 + Len(defaults) + 1

\* lines 846-868: the default values go on the last line or on a line of
\* their own
add_defaults(wrapped, defaults, columns) ==
    IF Len(wrapped) = 0 THEN <<defaults>>
    ELSE IF length_with_defaults(wrapped[Len(wrapped)], defaults) >= columns
    THEN Append(wrapped, defaults)
    ELSE [wrapped EXCEPT ![Len(wrapped)] = @ \o <<" ">> \o defaults]

MaxSlack == 2

Word(n) == [k \in 1..n |-> "a"]

\* word lengths: short ones and those within MaxSlack of the narrowest
\* description column
WordLengths == {1, 2} \cup ((description_min_columns - MaxSlack - 1)..description_min_columns)

HelpDescriptions ==
    {<<>>} \cup {Word(n) : n \in WordLengths}
           \cup {Word(1) \o <<" ">> \o Word(m) : m \in WordLengths}

\* default_values_description: none, a short one, and those that make a
\* one-letter description with its defaults as long as the column is wide
HelpDefaults ==
    {<<>>, <<"8">>}
        \cup {Word(n) : n \in (description_min_columns - 14 - MaxSlack)..(description_min_columns - 13)}

\* syntax labels narrower than, as wide as and wider than what leaves the
\* minimum description width, and one wider than the display
WidestSyntaxes == {Spaces(n) : n \in {35, 36, 37, 81}}

InitHelp ==
    /\ ParserIdle
    /\ WrapIdle
    /\ TabIdle
    /\ ServerIdle
    /\ help_pc = "begin"
    /\ help_option \in [description : HelpDescriptions, default_values_description : HelpDefaults]
    /\ widest_syntax \in WidestSyntaxes
    /\ description_lines = <<>>

\* lines 826-832 and 844: the width of the description column, and the
\* wrapper is called on the description
HelpWrap ==
    /\ help_pc = "begin"
    /\ wrap_pc = "idle"
    /\ wrap_columns' = description_columns(Len(widest_syntax))
    /\ wrap_str' = help_option.description
    /\ wrap_pc' = "construct"
    /\ help_pc' = "wrap"
    /\ UNCHANGED <<parser_vars, tab_vars, server_vars, help_option, widest_syntax, description_lines,
                   m_columns, lines, out, frame>>

\* lines 835-839 and 846-868: the default values are added to the lines
\* the wrapper returned
HelpDefaultsAdded ==
    /\ help_pc = "wrap"
    /\ wrap_pc = "returned"
    /\ description_lines' = add_defaults(out, defaults_text(help_option.default_values_description),
                                         description_columns(Len(widest_syntax)))
    /\ help_pc' = "done"
    /\ UNCHANGED <<parser_vars, wrap_vars, tab_vars, server_vars, help_option, widest_syntax>>

NextHelp == HelpWrap \/ NextWrap \/ HelpDefaultsAdded

SpecHelp == InitHelp /\ [][NextHelp]_vars

(***************************************************************************)
(* C24: the description column with and without default values.            *)
(***************************************************************************)
\* the block of the option is complete
Described == help_pc = "done"

\* the lines the wrapper returned for the description
Wrapped == out

Suffix == defaults_text(help_option.default_values_description)

\* the last wrapped line with the suffix and the newline stays below the
\* width of the column
SuffixFits ==
    /\ Wrapped # <<>>
    /\ Len(Wrapped[Len(Wrapped)]) + 1 + Len(Suffix) + 1 < description_columns(Len(widest_syntax))

\* C24 as stated: without a default description the column is exactly the
\* wrapped description lines; with one, the suffix is appended to the last
\* line when the result fits within the width, and is an extra line of its
\* own otherwise.
C24_AsStated ==
    Described =>
        IF help_option.default_values_description = <<>>
        THEN description_lines = Wrapped
        ELSE IF SuffixFits
        THEN description_lines = [Wrapped EXCEPT ![Len(Wrapped)] = @ \o <<" ">> \o Suffix]
        ELSE description_lines = Append(Wrapped, Suffix)

(***************************************************************************)
(* A parse call together with the help it renders: when the call decided   *)
(* to show the help, the block of one option is rendered (its description  *)
(* wrapped at the width of the description column, the defaults placed).   *)
(* The program is sequential and every state has one successor at most,    *)
(* so the call terminates if a rank in a well-founded order goes down at   *)
(* every step and no state short of the end is without a step.             *)
(***************************************************************************)
TermTables == {OptionsOptional, OptionsRequired}

TermPool == {nHelp, Arg(nPort, v80), Arg(nPort, vAbc), nBogus}

\* descriptions that wrap into one line and into three
TermDescriptions == {Word(2), Word(1) \o <<" ">> \o Word(description_min_columns)}

InitTerm ==
    /\ options \in TermTables
    /\ args \in ArgVectors(TermPool)
    /\ pc = "enter"
    /\ i = 1
    /\ config = EmptyTree
    /\ options_found = {}
    /\ parse_error = FALSE
    /\ diags = <<>>
    /\ calls = <<>>
    /\ help_shown = 0
    /\ state = NoState
    /\ WrapIdle
    /\ TabIdle
    /\ ServerIdle
    /\ help_pc = "idle"
    /\ help_option \in [description : TermDescriptions,
                        default_values_description : {<<>>, <<"8">>}]
    /\ widest_syntax = Spaces(37)
    /\ description_lines = <<>>

\* lines 591 and 670: show_help is called
HelpShow ==
    /\ pc = "returned"
    /\ help_shown > 0
    /\ help_pc = "idle"
    /\ help_pc' = "begin"
    /\ UNCHANGED <<parser_vars, wrap_vars, tab_vars, server_vars, help_option, widest_syntax,
                   description_lines>>

NextTerm == Next \/ HelpShow \/ NextHelp

SpecTerm == InitTerm /\ [][NextTerm]_vars

(***************************************************************************)
(* C23: termination.                                                       *)
(***************************************************************************)
\* the call is over: it returned or threw, and the help it asked for is
\* rendered
Terminated ==
    /\ pc \in {"returned", "thrown"}
    /\ help_shown > 0 => help_pc = "done"

\* the number of arguments examined so far
Examined == Cardinality({c \in DOMAIN calls : calls[c].ev = "argument"})

\* an iteration of the loop examines the argument under the index and moves
\* the index on by one
ExaminesNext ==
    /\ i' = i + 1
    /\ Len(calls') > Len(calls)
    /\ calls'[Len(calls) + 1] = [ev |-> "argument", option |-> 0]
    /\ SubSeq(calls', 1, Len(calls)) = calls

\* the ranks of the positions
ParserRank ==
    CASE pc = "enter" -> argc + 1
      [] pc = "loop"  -> argc - i + 1
      [] OTHER        -> 0

HelpRank ==
    CASE help_pc = "idle"  -> 3
      [] help_pc = "begin" -> 2
      [] help_pc = "wrap"  -> 1
      [] OTHER             -> 0

WrapRank ==
    CASE wrap_pc \in {"idle", "construct"} -> 3
      [] wrap_pc = "wrap_words"            -> 2
      [] wrap_pc \in {"for", "wrap_line"}  -> 1
      [] OTHER                             -> 0

\* the parse loop, the help block, the wrapper's phases, the lines still to
\* wrap, whether a line is being wrapped, what is left of it after the line
\* start, and what is left of it after the scan index
Rank ==
    <<ParserRank, HelpRank, WrapRank, Len(lines), IF wrap_pc = "wrap_line" THEN 1 ELSE 0,
      Len(frame.s) - frame.line_start, Len(frame.s) - frame.i>>

\* the lexicographic order on tuples of naturals of one length
RECURSIVE LexLess(_, _)
LexLess(a, b) ==
    /\ a # <<>>
    /\ \/ Head(a) < Head(b)
       \/ Head(a) = Head(b) /\ LexLess(Tail(a), Tail(b))

\* every component of the rank is a natural number
RankInNat == \A k \in DOMAIN Rank : Rank[k] >= 0

\* a state short of the end has a step to take
CanStep ==
    \/ pc \in {"enter", "loop"}
    \/ pc = "returned" /\ help_shown > 0 /\ help_pc = "idle"
    \/ help_pc = "begin" /\ wrap_pc = "idle"
    \/ help_pc = "wrap" /\ wrap_pc \in {"construct", "wrap_words", "for", "wrap_line", "returned"}

\* C23: for every argument vector and valid definition set the parse call
\* terminates, and so does the help rendering it triggers: a rank in a
\* well-founded order goes down at every step and only a finished call has
\* no step to take.  Every loop iteration examines the argument under the
\* index and moves the index on by one, so that the arguments examined are
\* argv[1 .. i - 1], each once, and all of them when the loop is left.
\* Every cut of the wrapper moves the line start forward and puts the scan
\* index, which does not move forward, on the new line start.
C23_Terminates ==
    /\ [](RankInNat /\ (Terminated \/ CanStep))
    /\ [][LexLess(Rank', Rank)]_vars
    /\ [](pc = "loop" => Examined = i - 1)
    /\ []((pc = "returned" /\ Len(calls) > 0) => (i = argc /\ Examined = Len(args)))
    /\ [][(pc = "loop" /\ i < argc) => ExaminesNext]_vars
    /\ [][CutStep => (frame'.line_start > frame.line_start /\ frame'.i = frame'.line_start
                      /\ frame'.i <= frame.i)]_vars

\* the help was asked for after an invalid argument, and the description
\* was cut twice before the call was over
C23_Witness ==
    /\ Terminated
    /\ options = OptionsRequired
    /\ args = <<Arg(nPort, vAbc), nHelp>>
    /\ help_shown = 1
    /\ Len(out) = 3

(***************************************************************************)
(* C26: the final value at a key.  The tables of C19, and one where the    *)
(* keys are shared as before and an option is required.                    *)
(***************************************************************************)
OptionsFinal == <<oVerbose, oQuiet, oRangeDefault, oLevelOnRange, oPort>>

InitFinal == InitWith({OptionsStore, OptionsFinal}, StorePool)

SpecFinal == InitFinal /\ [][Next]_vars

\* the value at key is the one written by the last argument of the vector
\* that targets the key and passes validation, or else the default seeded
\* last for the key; a key that nothing was written to is absent
FinalValue(key) ==
    IF FoundStores(key) = {} /\ DefaultStores(key) = {}
    THEN key \notin DOMAIN config
    ELSE KeyValue(key) = LastStore(key).text

MaxHandlers == 2

Handlers == 1..MaxHandlers

\* the form fields a request carries
FormData(user_prompt, image_file, system_prompt) ==
    [user_prompt |-> user_prompt, image_file |-> image_file, system_prompt |-> system_prompt]

RequestPool ==
    { FormData(TRUE, TRUE, FALSE), FormData(TRUE, TRUE, TRUE), FormData(FALSE, TRUE, FALSE),
      FormData(TRUE, FALSE, FALSE), FormData(FALSE, FALSE, TRUE) }

\* httplib::Request::has_file
has_file(req, name) == req[name]

\* web_server.cpp lines 175-178: the content set when a required field is
\* missing; the handler goes on
missing_fields_content(req, content) ==
    IF ~has_file(req, "user_prompt") \/ ~has_file(req, "image_file")
    THEN "request is missing one or more required fields"
    ELSE content

\* llava_server.cpp lines 70-145: the contents perform_inference sets on its
\* exits; an image of no bytes cannot be loaded
perform_inference(req) ==
    IF ~has_file(req, "image_file")
    THEN {"unable to load image"}
    ELSE {"unable to load image", "unable to preprocess image",
          "unable to allocate memory for image embeddings", "unable to encode image",
          "multimodal projector embedding dimensions are not equal to LLaMA", "content"}

\* locks without waiting for the holder
unique_lock_no_wait(m, thread) == [acquired |-> TRUE, m |-> thread]

\* std::unique_lock lock(m): the lock is taken when no thread holds it
unique_lock(m, thread) ==
    [acquired |-> m = NoThread, m |-> IF m = NoThread THEN thread ELSE m]

InitWeb ==
    /\ ParserIdle
    /\ WrapIdle
    /\ TabIdle
    /\ HelpIdle
    /\ QueueIdle
    /\ MainIdle
    /\ requests \in [Handlers -> RequestPool]
    /\ handler_pc = [h \in Handlers |-> "start"]
    /\ response = [h \in Handlers |-> ""]
    /\ handed_off = [h \in Handlers |-> FALSE]
    /\ mtx = NoThread

not_web_vars == <<parser_vars, wrap_vars, tab_vars, help_vars, queue_vars, main_vars>>

\* web_server.cpp lines 173-198: the handler up to the call of the callback
PostLlava(h) ==
    /\ handler_pc[h] = "start"
    /\ response' = [response EXCEPT ![h] = missing_fields_content(requests[h], @)]
    /\ handed_off' = [handed_off EXCEPT ![h] = TRUE]
    /\ handler_pc' = [handler_pc EXCEPT ![h] = "lock"]
    /\ UNCHANGED <<not_web_vars, requests, mtx>>

\* llava_server.cpp line 292: the callback takes the mutex
Lock(h) ==
    /\ handler_pc[h] = "lock"
    /\ unique_lock(mtx, h).acquired
    /\ mtx' = unique_lock(mtx, h).m
    /\ handler_pc' = [handler_pc EXCEPT ![h] = "perform_inference"]
    /\ UNCHANGED <<not_web_vars, requests, response, handed_off>>

\* llava_server.cpp lines 293 and 52-157: perform_inference runs and sets
\* the content
PerformInference(h) ==
    /\ handler_pc[h] = "perform_inference"
    /\ \E content \in perform_inference(requests[h]) :
           response' = [response EXCEPT ![h] = content]
    /\ handler_pc' = [handler_pc EXCEPT ![h] = "return"]
    /\ UNCHANGED <<not_web_vars, requests, handed_off, mtx>>

\* llava_server.cpp line 294: the lock goes out of scope, the handler returns
Return(h) ==
    /\ handler_pc[h] = "return"
    /\ mtx' = NoThread
    /\ handler_pc' = [handler_pc EXCEPT ![h] = "done"]
    /\ UNCHANGED <<not_web_vars, requests, response, handed_off>>

NextWeb == \E h \in Handlers : PostLlava(h) \/ Lock(h) \/ PerformInference(h) \/ Return(h)

SpecWeb == InitWeb /\ [][NextWeb]_vars

(***************************************************************************)
(* C25: a request without a required field.                                *)
(***************************************************************************)
LacksRequiredField(h) == ~requests[h].user_prompt \/ ~requests[h].image_file

\* C25 as stated: once the handler has looked at a request that lacks
\* user_prompt or image_file, the response is the "missing required fields"
\* error from then on and the hand-off callback is never called for it.
C25_AsStated ==
    \A h \in Handlers :
        (LacksRequiredField(h) /\ handler_pc[h] # "start") =>
            /\ response[h] = "request is missing one or more required fields"
            /\ ~handed_off[h]

(***************************************************************************)
(* C28: one inference at a time.                                           *)
(***************************************************************************)
\* the handlers inside perform_inference, which uses the llama context
InPerformInference == {h \in Handlers : handler_pc[h] = "perform_inference"}

\* C28: at most one handler is inside perform_inference (and so uses the
\* llama context) at any time; a handler holds the mutex from before the
\* call until after it; a handler that has returned had its response
\* content set by perform_inference.
C28_OneInference ==
    /\ Cardinality(InPerformInference) <= 1
    /\ \A h \in Handlers :
        /\ handler_pc[h] \in {"perform_inference", "return"} => mtx = h
        /\ handler_pc[h] \in {"return", "done"} =>
               response[h] \in perform_inference(requests[h])

\* one handler is inside perform_inference while the other waits for the
\* mutex
C28_Witness ==
    /\ handler_pc[1] = "perform_inference"
    /\ handler_pc[2] = "lock"
    /\ mtx = 1

(***************************************************************************)
(* The work-queue variant of the server: the handlers push their request   *)
(* through push_to_work_queue, run_llava_thread waits on the condition     *)
(* variable and takes the requests off the queue.  A request is named by   *)
(* the handler that pushed it.  The threads are scheduled fairly; a        *)
(* spurious wake-up of the waiting thread is possible and not relied on.   *)
(***************************************************************************)
\* the thread of run_llava_thread
Worker == 0 - 1

\* wakes nobody
notify_all_lost(waiting_pc) == waiting_pc

\* s_cv.notify_all(): a thread blocked in wait goes on to take the mutex again
notify_all(waiting_pc) == IF waiting_pc = "blocked" THEN "relock" ELSE waiting_pc

InitQueue ==
    /\ ParserIdle
    /\ WrapIdle
    /\ TabIdle
    /\ HelpIdle
    /\ WebIdle
    /\ MainIdle
    /\ push_pc = [h \in Handlers |-> "start"]
    /\ s_mtx = NoThread
    /\ s_work_queue = <<>>
    /\ worker_pc = "lock"
    /\ request = NoThread
    /\ pushed = <<>>
    /\ dequeued = <<>>

not_queue_vars == <<parser_vars, wrap_vars, tab_vars, help_vars, web_vars, main_vars>>

\* part_000 lines 98-114: the handler up to the call of push_to_work_queue
PostPush(h) ==
    /\ push_pc[h] = "start"
    /\ push_pc' = [push_pc EXCEPT ![h] = "lock"]
    /\ UNCHANGED <<not_queue_vars, s_mtx, s_work_queue, worker_pc, request, pushed, dequeued>>

\* part_003 line 168
PushLock(h) ==
    /\ push_pc[h] = "lock"
    /\ unique_lock(s_mtx, h).acquired
    /\ s_mtx' = unique_lock(s_mtx, h).m
    /\ push_pc' = [push_pc EXCEPT ![h] = "emplace"]
    /\ UNCHANGED <<not_queue_vars, s_work_queue, worker_pc, request, pushed, dequeued>>

\* part_003 line 169
PushEmplace(h) ==
    /\ push_pc[h] = "emplace"
    /\ s_work_queue' = Append(s_work_queue, h)
    /\ pushed' = Append(pushed, h)
    /\ push_pc' = [push_pc EXCEPT ![h] = "notify_all"]
    /\ UNCHANGED <<not_queue_vars, s_mtx, worker_pc, request, dequeued>>

\* part_003 line 170
PushNotify(h) ==
    /\ push_pc[h] = "notify_all"
    /\ worker_pc' = notify_all(worker_pc)
    /\ push_pc' = [push_pc EXCEPT ![h] = "return"]
    /\ UNCHANGED <<not_queue_vars, s_mtx, s_work_queue, request, pushed, dequeued>>

\* part_003 line 171: the lock goes out of scope
PushReturn(h) ==
    /\ push_pc[h] = "return"
    /\ s_mtx' = NoThread
    /\ push_pc' = [push_pc EXCEPT ![h] = "done"]
    /\ UNCHANGED <<not_queue_vars, s_work_queue, worker_pc, request, pushed, dequeued>>

PushStep(h) == PostPush(h) \/ PushLock(h) \/ PushEmplace(h) \/ PushNotify(h) \/ PushReturn(h)

\* part_003 line 152, and the mutex taken again inside wait
WorkerLock ==
    /\ worker_pc \in {"lock", "relock"}
    /\ unique_lock(s_mtx, Worker).acquired
    /\ s_mtx' = unique_lock(s_mtx, Worker).m
    /\ worker_pc' = "wait"
    /\ UNCHANGED <<not_queue_vars, push_pc, s_work_queue, request, pushed, dequeued>>

\* part_003 line 153: wait returns if the queue is not empty, else it
\* releases the mutex and blocks
WorkerWait ==
    /\ worker_pc = "wait"
    /\ IF s_work_queue # <<>>
       THEN worker_pc' = "front" /\ UNCHANGED s_mtx
       ELSE worker_pc' = "blocked" /\ s_mtx' = NoThread
    /\ UNCHANGED <<not_queue_vars, push_pc, s_work_queue, request, pushed, dequeued>>

\* a wake-up without a notification
WorkerSpuriousWake ==
    /\ worker_pc = "blocked"
    /\ worker_pc' = "relock"
    /\ UNCHANGED <<not_queue_vars, push_pc, s_mtx, s_work_queue, request, pushed, dequeued>>

\* part_003 line 154: front() of an empty queue is undefined
WorkerFront ==
    /\ worker_pc = "front"
    /\ IF s_work_queue # <<>>
       THEN request' = Head(s_work_queue) /\ worker_pc' = "pop"
       ELSE request' \in {NoThread} \cup Handlers /\ worker_pc' \in {"pop", "undefined"}
    /\ UNCHANGED <<not_queue_vars, push_pc, s_mtx, s_work_queue, pushed, dequeued>>

\* part_003 line 155: pop() of an empty queue is undefined
WorkerPop ==
    /\ worker_pc = "pop"
    /\ IF s_work_queue # <<>>
       THEN /\ s_work_queue' = Tail(s_work_queue)
            /\ dequeued' = Append(dequeued, request)
            /\ worker_pc' = "unlock"
       ELSE /\ worker_pc' = "undefined"
            /\ UNCHANGED <<s_work_queue, dequeued>>
    /\ UNCHANGED <<not_queue_vars, push_pc, s_mtx, request, pushed>>

\* part_003 line 158
WorkerUnlock ==
    /\ worker_pc = "unlock"
    /\ s_mtx' = NoThread
    /\ worker_pc' = "perform_inference"
    /\ UNCHANGED <<not_queue_vars, push_pc, s_work_queue, request, pushed, dequeued>>

\* part_003 lines 161-162: the inference, and the next round of the loop
WorkerInference ==
    /\ worker_pc = "perform_inference"
    /\ worker_pc' = "lock"
    /\ UNCHANGED <<not_queue_vars, push_pc, s_mtx, s_work_queue, request, pushed, dequeued>>

WorkerStep ==
    WorkerLock \/ WorkerWait \/ WorkerFront \/ WorkerPop \/ WorkerUnlock \/ WorkerInference

NextQueue == (\E h \in Handlers : PushStep(h)) \/ WorkerStep \/ WorkerSpuriousWake

SpecQueue ==
    /\ InitQueue
    /\ [][NextQueue]_vars
    /\ WF_vars(WorkerStep)
    /\ \A h \in Handlers : WF_vars(PushStep(h))

(***************************************************************************)
(* C29: the work queue.                                                    *)
(***************************************************************************)
Elements(sequence) == {sequence[k] : k \in DOMAIN sequence}

\* a handler put a request on the queue and has not yet notified
NotifyPending == \E h \in Handlers : push_pc[h] = "notify_all"

QueueSafe ==
    \* popped in the order of the pushes, each once, and the rest is queued
    /\ pushed = dequeued \o s_work_queue
    /\ \A k, l \in DOMAIN pushed : pushed[k] = pushed[l] => k = l
    \* the worker reads and pops a queue that is not empty, holding the mutex
    /\ worker_pc # "undefined"
    /\ worker_pc \in {"front", "pop"} => (s_work_queue # <<>> /\ s_mtx = Worker)
    \* no wake-up is lost: a worker blocked on a queue that is not empty is
    \* about to be notified
    /\ (worker_pc = "blocked" /\ s_work_queue # <<>>) => NotifyPending
    \* the inference runs without the mutex
    /\ worker_pc = "perform_inference" => s_mtx # Worker

\* C29: every request pushed through push_to_work_queue is eventually taken
\* off the queue by the worker, once and in the order of the pushes; the
\* worker never reads or pops an empty queue; a worker blocked in wait
\* while the queue holds a request has a notification coming; the mutex is
\* not held by the worker while it runs the inference, so a push can go
\* ahead.
C29_WorkQueue ==
    /\ []QueueSafe
    /\ \A h \in Handlers : (h \in Elements(pushed)) ~> (h \in Elements(dequeued))
    /\ [](\A h \in Handlers :
             (worker_pc = "perform_inference" /\ push_pc[h] = "lock" /\ s_mtx \notin Handlers)
                 => ENABLED PushLock(h))

\* the worker runs the inference of the first request while the second
\* handler, holding the mutex, has put its request on the queue
C29_Witness ==
    /\ worker_pc = "perform_inference"
    /\ request = 1
    /\ dequeued = <<1>>
    /\ s_work_queue = <<2>>
    /\ push_pc[2] = "notify_all"
    /\ s_mtx = 2

(***************************************************************************)
(* The server's own command line (llava_server.cpp): parse_command_line    *)
(* takes --host, --port and --log-http out of the arguments and hands the  *)
(* rest to llama.cpp's gpt_params_parse; main then loads the models and    *)
(* starts the web server.  One round of the loop of parse_command_line is  *)
(* one step.                                                               *)
(***************************************************************************)
MaxServerArgs == 2

nHost      == <<"-","-","h","o","s","t">>
nLogHttp   == <<"-","-","l","o","g","-","h","t","t","p">>
nMmproj    == <<"-","-","m","m","p","r","o","j">>
vLocalhost == <<"l","o","c","a","l","h","o","s","t">>
vProgram   == <<"l","l","a","v","a","-","s","e","r","v","e","r">>
vProjector == <<"m","m","p","r","o","j",".","g","g","u","f">>

ServerPool == {nHost, nPort, nLogHttp, nMmproj, v80, vAbc}

ServerArgvs ==
    {<<vProgram>> \o rest : rest \in UNION {[1..n -> ServerPool] : n \in 0..MaxServerArgs}}

\* the digits of the limits of int
IntMaxDigits    == <<"2","1","4","7","4","8","3","6","4","7">>
IntLowestDigits == <<"2","1","4","7","4","8","3","6","4","8">>

Unsigned(s0) == IF s0 # <<>> /\ Head(s0) \in {"-", "+"} THEN Tail(s0) ELSE s0

Negative(s0) == s0 # <<>> /\ Head(s0) = "-"

stoi_digits(s1, neg) ==
    IF DigitRun(s1) = <<>>
    THEN [thrown |-> "invalid_argument", value |-> 0]
    ELSE IF ExceedsLimit(StripZeros(DigitRun(s1)), IF neg THEN IntLowestDigits ELSE IntMaxDigits)
    THEN [thrown |-> "out_of_range", value |-> 0]
    ELSE [thrown |-> "none",
          value |-> IF neg THEN 0 - ReadDigits(s1, 0, 0).value ELSE ReadDigits(s1, 0, 0).value]

\* std::stoi: white space, an optional sign and the longest run of digits;
\* throws when there is no digit or the number does not fit an int
stoi(str) == stoi_digits(Unsigned(SkipSpace(str)), Negative(SkipSpace(str)))

\* std::vector::erase of the element at position it (1-based)
erase(vector, it) ==
    [k \in 1..(Len(vector) - 1) |-> IF k < it THEN vector[k] ELSE vector[k + 1]]

requires_one_argument(arg) == <<"error: ", arg, " requires one argument.">>

\* the locals of main when parse_command_line is entered, and its vector
\* of arguments with the iterator at the first element
MainLocals(argv) ==
    [args                |-> argv,
     it                  |-> 1,
     hostname            |-> vLocalhost,
     port                |-> 8080,
     enable_http_logging |-> FALSE,
     success             |-> "none",
     mmproj              |-> <<>>,
     stderr              |-> <<>>,
     stdout              |-> <<>>,
     exit_status         |-> 0 - 1,
     model_loaded        |-> FALSE,
     server_started      |-> FALSE]

InitMain ==
    /\ ParserIdle
    /\ WrapIdle
    /\ TabIdle
    /\ HelpIdle
    /\ WebIdle
    /\ QueueIdle
    /\ main_argv \in ServerArgvs
    /\ main_pc = "parse_command_line"
    /\ main_state = MainLocals(main_argv)

not_main_vars == <<parser_vars, wrap_vars, tab_vars, help_vars, web_vars, queue_vars>>

\* lines 183-203: --host or --port found at position it
take_value(st, arg, rest) ==
    IF st.it > Len(rest)
    THEN [pc |-> "returned",
          st |-> [st EXCEPT !.args = rest,
                            !.stderr = Append(@, requires_one_argument(arg)),
                            !.success = "true"]]
    ELSE IF arg = nHost
    THEN [pc |-> "parse_command_line",
          st |-> [st EXCEPT !.hostname = rest[st.it], !.args = erase(rest, st.it)]]
    ELSE IF stoi(rest[st.it]).thrown # "none"
    THEN [pc |-> "terminate", st |-> [st EXCEPT !.args = rest]]
    ELSE [pc |-> "parse_command_line",
          st |-> [st EXCEPT !.port = stoi(rest[st.it]).value, !.args = erase(rest, st.it)]]

\* lines 180-213: one round of the loop
custom_parameter(st) ==
    IF st.args[st.it] = nHost \/ st.args[st.it] = nPort
    THEN take_value(st, st.args[st.it], erase(st.args, st.it))
    ELSE IF st.args[st.it] = nLogHttp
    THEN [pc |-> "parse_command_line",
          st |-> [st EXCEPT !.enable_http_logging = TRUE, !.args = erase(st.args, st.it)]]
    ELSE [pc |-> "parse_command_line", st |-> [st EXCEPT !.it = @ + 1]]

ParseCustom ==
    /\ main_pc = "parse_command_line"
    /\ main_state.it <= Len(main_state.args)
    /\ main_pc' = custom_parameter(main_state).pc
    /\ main_state' = custom_parameter(main_state).st
    /\ UNCHANGED <<not_main_vars, main_argv>>

\* lines 215-234: gpt_params_parse belongs to llama.cpp; it succeeds or
\* not, and may have set params.mmproj
GptParamsParse ==
    /\ main_pc = "parse_command_line"
    /\ main_state.it > Len(main_state.args)
    /\ \E success \in {"true", "false"}, mmproj \in {<<>>, vProjector} :
           main_state' = [main_state EXCEPT !.success = success, !.mmproj = mmproj]
    /\ main_pc' = "returned"
    /\ UNCHANGED <<not_main_vars, main_argv>>

\* lines 246-250
MainParseFailed ==
    /\ main_pc = "returned"
    /\ main_state.success = "false"
    /\ main_state' = [main_state EXCEPT !.stdout = Append(@, "show_additional_info"),
                                        !.exit_status = 1]
    /\ main_pc' = "exit"
    /\ UNCHANGED <<not_main_vars, main_argv>>

\* lines 252-257
MainNoMmproj ==
    /\ main_pc = "returned"
    /\ main_state.success = "true"
    /\ main_state.mmproj = <<>>
    /\ main_state' = [main_state EXCEPT
                         !.stdout = @ \o <<"gpt_print_usage", "show_additional_info">>,
                         !.exit_status = 1]
    /\ main_pc' = "exit"
    /\ UNCHANGED <<not_main_vars, main_argv>>

\* lines 259-285: the models are loaded; either load may fail
MainLoadModel ==
    /\ main_pc = "returned"
    /\ main_state.success = "true"
    /\ main_state.mmproj # <<>>
    /\ \E loaded \in BOOLEAN :
           IF loaded
           THEN /\ main_state' = [main_state EXCEPT !.model_loaded = TRUE]
                /\ main_pc' = "run_web_server"
           ELSE /\ main_state' = [main_state EXCEPT !.exit_status = 1]
                /\ main_pc' = "exit"
    /\ UNCHANGED <<not_main_vars, main_argv>>

\* lines 288-295
MainRunWebServer ==
    /\ main_pc = "run_web_server"
    /\ main_state' = [main_state EXCEPT !.server_started = TRUE]
    /\ main_pc' = "serving"
    /\ UNCHANGED <<not_main_vars, main_argv>>

NextMain ==
    \/ ParseCustom
    \/ GptParamsParse
    \/ MainParseFailed
    \/ MainNoMmproj
    \/ MainLoadModel
    \/ MainRunWebServer

SpecMain == InitMain /\ [][NextMain]_vars

(***************************************************************************)
(* C30: --host or --port without a value.                                  *)
(***************************************************************************)
ValueMissing ==
    \E k \in DOMAIN main_state.stderr :
        main_state.stderr[k] \in {requires_one_argument(nHost), requires_one_argument(nPort)}

\* C30: when --host or --port is the last argument, parse_command_line
\* prints that the option requires one argument and reports failure, and
\* main leaves through the usage of lines 246-250 with status 1, no model
\* loaded and no web server started.
C30_AsStated ==
    (main_pc \in {"returned", "exit"} /\ ValueMissing) =>
        /\ main_state.success = "false"
        /\ ~main_state.model_loaded
        /\ ~main_state.server_started
        /\ main_pc = "exit" => main_state.exit_status = 1

====
